---------------------------- MODULE Spec2Model ----------------------------
(***************************************************************************)
(* Session / agent-process orchestration of the Telegram bridge            *)
(* (src/src/bot.ts, src/src/agent/claude.ts, src/unnamed/part_003).        *)
(*                                                                         *)
(* One authorised user, hence one UserSession.  Updates from the chat are  *)
(* handled one at a time (bot.start() long polling awaits each update's    *)
(* middleware before taking the next); the handlers of agent events and    *)
(* of process close events are started by the runtime whenever the child   *)
(* process produces them, so they interleave with a suspended update       *)
(* handler and with each other at every await of a chat call.              *)
(*                                                                         *)
(* Spec is the session and process lifecycle; SpecBang adds the shell      *)
(* escape, SpecCd follows directory changes with paths of every shape,     *)
(* SpecTable the texts shown and the expandable-message table,             *)
(* SpecPresent the order of the chat calls of one task, SpecAuth the       *)
(* sender of each update, SpecAgent one agent instance with its child      *)
(* processes, and SpecUtils the functions of src/src/utils.ts.             *)
(***************************************************************************)
EXTENDS Integers, Sequences, FiniteSets, TLC

(***************************************************************************)
(* Bounds of the model.                                                    *)
(***************************************************************************)
MaxTasks == 2      \* tasks begun by handleMessage (each may construct an agent)
MaxProcs == 2      \* child processes spawned in a run
MaxPending == 1    \* agent event / close handlers suspended at a chat call
MaxPathLen == 3    \* segments of a stored cwd (directory changes alone)
MaxLong == 22      \* long responses presented in a run
MaxSameMs == 1     \* long responses up to which two fall in one millisecond
MaxEmitted == 3    \* events of the task's process whose chat calls are followed
MaxKids == 3       \* processes one agent instance spawns
MaxOut == 1        \* lines a process of the agent writes to standard output
MaxStderr == 1     \* chunks a process writes to its standard error
MaxInput == 5      \* characters of a path given to resolvePath
MaxPieces == 6     \* pieces of a text given to stripThinkingTags
MaxStdout == 4     \* bytes a process writes to its standard output
MaxBots == 3       \* bot processes the desktop shell spawns
MaxTimers == 1     \* delayed starts pending at once

(***************************************************************************)
(* Program constants.                                                      *)
(***************************************************************************)
CrashMsgLimit == 500   \* errorMsg.length < 500
OutputLimit == 1000    \* text.length > 1000 (tool output)
ResponseLimit == 1500  \* text.length > 1500 (response text)
TableLimit == 20       \* longMessages.size > 20
BashLimit == 50         \* cmd.length > 50 (command of a Bash tool use)
ExitMsgLen == 26       \* `Process exited with code ${code}`.length

None == "none"                 \* null / undefined
Continue == "continue"         \* "continue-most-recent" sentinel
SessionIds == {"s1"}           \* session ids the backend reports
Home == <<"home">>             \* process.env.HOME, as path segments

VARIABLES
  agentKind,   \* config.agent: "claude" | "opencode"
  fullMode,    \* config.streamMode === "full"
  session,     \* the UserSession of the allowed user
  agents,      \* agents[t]: the CodingAgent constructed for task t
  procs,       \* child processes, by spawn order
  handlers,    \* suspended handleEvent / onClose invocations, by start order
  upd,         \* the update handler (command or message) in progress
  nTask,       \* tasks begun so far
  since,       \* history: "new" / "resume" from that command until another
               \* command stops the agent or a task constructs its agent
  longMessages,\* the expandable-message table, in insertion order
  now,         \* Date.now() of the latest long response, as a rank
  nLong,       \* long responses presented so far
  chat,        \* the content of the latest chat call that carries a text
  cb,          \* the expansion callback in progress
  calls,       \* history: the chat calls issued for agent events, in order
  nEv,         \* events the process of the task has emitted
  sender,      \* ctx.from?.id of the update last received
  ad,          \* one agent instance and the child processes it has spawned
  fn,          \* the latest call of a function of utils.ts: arguments, result
  shell        \* the desktop shell: indicator, handle, bot processes, timers

vars == <<agentKind, fullMode, session, agents, procs, handlers, upd, nTask, since,
          longMessages, now, nLong, chat, cb, calls, nEv, sender, ad, fn, shell>>

\* The texts of messages and the order of the chat calls are followed in
\* specifications of their own (SpecTable, SpecPresent); the actions of
\* the session and process lifecycle leave them alone.  The sender of an
\* update is followed in SpecAuth; elsewhere every update is from the
\* allowed user.  One agent instance with the exit and the close of its
\* processes apart is followed in SpecAgent, the functions of utils.ts in
\* SpecUtils, the desktop shell that runs the bridge in SpecShell.
vars_session == <<agentKind, fullMode, session, agents, procs, handlers, upd, nTask, since>>
texts == <<longMessages, now, nLong, chat, cb>>
issued == <<calls, nEv, sender, ad, fn, shell>>


\* config.allowedUserId, and the senders an update can have: none (an
\* update without a from field), the allowed user, somebody else
AllowedUserId == 1
Senders == {0, AllowedUserId, AllowedUserId + 1}

\* new ClaudeAgent(...) / new OpenCodeAgent(...): no process, empty buffers.
\* kids are the processes spawned, in order; proc is this.proc as an index
\* into kids (0 for null); stderrBuffer lists, chunk by chunk, the process
\* each chunk came from; pc is "wait" while sendMessage awaits a close
NewAgent ==
  [started |-> FALSE, proc |-> 0, stderrBuffer |-> <<>>, kids |-> <<>>,
   pc |-> "idle", waitOn |-> 0, opt |-> None, sid |-> None]

\* the desktop shell after launch without a valid configuration: no bot
\* process.  bots are the bot processes spawned, in order; botProcess is
\* an index into bots (0 for null); timers are the pending delayed starts
NewShell == [isRunning |-> FALSE, botProcess |-> 0, bots |-> <<>>, timers |-> 0]

\* no function of utils.ts has been called
NoCall == [name |-> "none", args |-> <<>>, out |-> <<>>, done |-> TRUE]

Tasks == 1..MaxTasks

(***************************************************************************)
(* A message id is modelled by the task whose handler sent the message:    *)
(* Msg(t) is the id of a message sent on behalf of task t, NoMsg is null.  *)
(* The ids of two messages of one task are not told apart.                 *)
(***************************************************************************)
Msg(task) == task
NoMsg == 0

(***************************************************************************)
(* Session registry.                                                       *)
(***************************************************************************)
getSession ==
  [agent |-> 0, sessionId |-> None, cwd |-> Home,
   statusMsgId |-> NoMsg, outputMsgId |-> NoMsg, responseMsgId |-> NoMsg,
   lastStatus |-> "", isProcessing |-> FALSE]

resetMessageBlocks(s) ==
  [s EXCEPT !.statusMsgId = NoMsg, !.outputMsgId = NoMsg, !.responseMsgId = NoMsg,
            !.lastStatus = ""]

\* variant of killAgent that keeps the handle and the busy flag
killAgentKeepsHandle(s) == [s EXCEPT !.sessionId = None]

\* variant of killAgent that also clears the message slots
killAgentClearsSlots(s) ==
  [s EXCEPT !.agent = 0, !.sessionId = None, !.isProcessing = FALSE,
            !.statusMsgId = NoMsg, !.outputMsgId = NoMsg, !.responseMsgId = NoMsg]

\* killAgent without the agent.stop() call, which StopAgent models
killAgent(s) ==
  [s EXCEPT !.agent = 0, !.sessionId = None, !.isProcessing = FALSE]

(***************************************************************************)
(* Agent process adapters.  An agent that was never constructed has        *)
(* made = FALSE; proc = 0 is this.proc === null.                           *)
(***************************************************************************)
NoAgent == [made |-> FALSE, proc |-> 0, sid |-> None, opt |-> None]

\* new ClaudeAgent(options, onEvent) / new OpenCodeAgent(options, onEvent);
\* opt is options.sessionId
createAgent(opt) ==
  [made |-> TRUE, proc |-> 0,
   sid |-> IF agentKind = "opencode" /\ opt # Continue THEN opt ELSE None,
   opt |-> opt]

\* a process that has closed: nothing of it is read again
Closed(pr) == [pr EXCEPT !.st = "closed", !.phase = "closed", !.flag = None]

\* stop(): kill the owned process, if any, and forget it
StopProcs(ps, a) ==
  IF a # 0 /\ agents[a].proc # 0
  THEN [ps EXCEPT ![agents[a].proc].st = "killed"]
  ELSE ps

StopAgents(ags, a) ==
  IF a # 0 THEN [ags EXCEPT ![a].proc = 0] ELSE ags

\* isRunning()
isRunning(a) == agents[a].proc # 0

\* variant of ClaudeResumeFlag that continues the latest session whenever
\* there is a token
ClaudeResumeFlagContinues(ag) ==
  IF ag.opt # None THEN "--continue" ELSE None

\* the resume argument of the spawned command line
\* (None: neither flag; a session id s: --resume s, or --session s)
ClaudeResumeFlag(ag) ==
  IF ag.opt = Continue THEN "--continue"
  ELSE IF ag.opt # None THEN ag.opt
  ELSE None

OpenCodeResumeFlag(ag) ==
  IF ag.opt = Continue THEN "--continue"
  ELSE IF ag.sid # None THEN ag.sid
  ELSE None

ResumeFlag(ag) ==
  IF agentKind = "opencode" THEN OpenCodeResumeFlag(ag) ELSE ClaudeResumeFlag(ag)

\* the child process spawn() returns
NewProc(a, ag) ==
  [agent |-> a, st |-> "alive",
   phase |-> IF agentKind = "opencode" THEN "running" ELSE "fresh",
   flag |-> ResumeFlag(ag)]

Alive(p) == procs[p].st = "alive"
Open(p) == procs[p].st # "closed"

(***************************************************************************)
(* Update handlers.  upd is the handler last started; pc = "done" when it  *)
(* has returned or thrown.                                                 *)
(***************************************************************************)
\* A text is known by what it is a piece of and by its length: Text(id, n)
\* is the first n characters of text id.
Text(id, len) == [id |-> id, len |-> len]
NoText == Text(0, 0)

\* no chat call with a text yet; no expansion callback in progress
NoChat == [op |-> "none", of |-> NoText, body |-> NoText, mark |-> "", control |-> 0]
NoCb == [pc |-> "done", key |-> 0, fullText |-> NoText, note |-> ""]

NoUpd == [kind |-> "none", pc |-> "done", note |-> "", task |-> 0]

Upd(kind, pc, note) == [kind |-> kind, pc |-> pc, note |-> note, task |-> 0]

Init ==
  /\ agentKind \in {"claude", "opencode"}
  /\ fullMode \in BOOLEAN
  /\ session = getSession
  /\ agents = [t \in Tasks |-> NoAgent]
  /\ procs = <<>>
  /\ handlers = <<>>
  /\ upd = NoUpd
  /\ nTask = 0
  /\ since = "none"
  /\ longMessages = <<>>
  /\ now = 0
  /\ nLong = 0
  /\ chat = NoChat
  /\ cb = NoCb
  /\ calls = <<>>
  /\ nEv = 0
  /\ sender = AllowedUserId
  /\ ad = NewAgent
  /\ shell = NewShell
  /\ fn = NoCall

config == <<agentKind, fullMode>>

\* bot.command("new").  The final reply of a command that has changed the
\* session is part of its step: whatever a process or a suspended handler
\* does while that reply is awaited, it can do after the handler returned.
CmdNew ==
  /\ upd.pc = "done"
  /\ procs' = StopProcs(procs, session.agent)
  /\ agents' = StopAgents(agents, session.agent)
  /\ session' = killAgent(session)
  /\ since' = "new"
  /\ UNCHANGED <<config, texts, issued, handlers, upd, nTask>>

\* bot.command("stop") up to its reply, which is all the handler does when
\* no task is running
CmdStop ==
  /\ upd.pc = "done"
  /\ IF session.isProcessing
     THEN /\ procs' = StopProcs(procs, session.agent)
          /\ agents' = StopAgents(agents, session.agent)
          /\ session' = killAgent(session)
          /\ upd' = Upd("stop", "reply", "Stopped. Use /resume to continue.")
          /\ since' = "none"
     ELSE /\ upd' = Upd("stop", "reply", "No task running.")
          /\ UNCHANGED <<procs, agents, session, since>>
  /\ UNCHANGED <<config, texts, issued, handlers, nTask>>

\* bot.command("resume"); the summary only changes the text of the reply
CmdResume ==
  /\ upd.pc = "done"
  /\ procs' = StopProcs(procs, session.agent)
  /\ agents' = StopAgents(agents, session.agent)
  /\ session' = [killAgent(session) EXCEPT !.sessionId = Continue]
  /\ since' = "resume"
  /\ UNCHANGED <<config, texts, issued, handlers, upd, nTask>>


(***************************************************************************)
(* Paths are sequences of segments; a path argument is relative, absolute  *)
(* or starts with "~".                                                     *)
(***************************************************************************)
Arg(kind, segs) == [kind |-> kind, segs |-> segs]

CdArgs == {Arg("tilde", <<>>), Arg("abs", <<"srv">>)}

\* tilde expansion, then a non-absolute path is joined onto cwd with
\* `${cwd}/${path}`; a path stands for "/" followed by its segments joined
\* by "/", so joining onto the root "/" gives "//...", an empty segment
CdTarget(arg, cwd) ==
  IF arg.kind = "tilde" THEN Home \o arg.segs
  ELSE IF arg.kind = "abs" THEN arg.segs
  ELSE (IF cwd = <<>> THEN <<"">> ELSE cwd) \o arg.segs

RECURSIVE Normalize(_, _)
Normalize(parts, resolved) ==
  IF parts = <<>> THEN resolved
  ELSE LET part == Head(parts) IN
       IF part = ""
       THEN Normalize(Tail(parts), resolved)
       ELSE IF part = ".."
       THEN Normalize(Tail(parts),
                      IF resolved = <<>> THEN <<>>
                      ELSE SubSeq(resolved, 1, Len(resolved) - 1))
       ELSE IF part = "."
       THEN Normalize(Tail(parts), resolved)
       ELSE Normalize(Tail(parts), Append(resolved, part))

\* the session assignments of bot.command("cd")
cdSession(s, target) ==
  [s EXCEPT !.agent = 0, !.sessionId = None, !.cwd = target]

\* bot.command("cd") with a path (without one the handler only replies, as
\* do /start and /status)
CmdCd(args) ==
  /\ upd.pc = "done"
  /\ \E arg \in args :
       /\ procs' = StopProcs(procs, session.agent)
       /\ agents' = StopAgents(agents, session.agent)
       /\ session' = cdSession(session, CdTarget(arg, session.cwd))
  /\ since' = "none"
  /\ UNCHANGED <<config, texts, issued, handlers, upd, nTask>>

\* bot.hears(/^!(.+)/) with a command that starts with "cd "
BangCd(args) ==
  /\ upd.pc = "done"
  /\ \E arg \in args :
       /\ procs' = StopProcs(procs, session.agent)
       /\ agents' = StopAgents(agents, session.agent)
       /\ session' = killAgent([session EXCEPT
                        !.cwd = Normalize(CdTarget(arg, session.cwd), <<>>)])
  /\ since' = "none"
  /\ UNCHANGED <<config, texts, issued, handlers, upd, nTask>>

\* variant of BangExec that stops the agent as the cd branch does
BangExecStopsAgent ==
  /\ upd.pc = "done"
  /\ upd' = Upd("bang", "return", "exec")
  /\ procs' = StopProcs(procs, session.agent)
  /\ agents' = StopAgents(agents, session.agent)
  /\ session' = killAgent(session)
  /\ UNCHANGED <<config, texts, issued, handlers, nTask, since>>

\* bot.hears(/^!(.+)/) with a command that is not a cd: exec() starts the
\* command in session.cwd and the handler returns; the reply with the output
\* is the last call of the exec callback
BangExec ==
  /\ upd.pc = "done"
  /\ upd' = Upd("bang", "return", "exec")
  /\ UNCHANGED <<config, texts, issued, session, agents, procs, handlers, nTask, since>>

\* the final await of an update handler resolves or rejects: the handler
\* returns or throws, and the next update is taken.  (No error handler is
\* installed on the bot; a dispatcher that stops taking updates once a
\* handler has thrown produces a prefix of the behaviours described here.)
UpdReturn ==
  /\ upd.pc \in {"reply", "return"}
  /\ upd' = NoUpd
  /\ UNCHANGED <<config, texts, issued, session, agents, procs, handlers, nTask, since>>


(***************************************************************************)
(* handleMessage.  The text and the optional image path only change what   *)
(* is written to the agent, so they are not part of the state.             *)
(***************************************************************************)
CanSpawn == Len(procs) < MaxProcs

MsgUpd(pc, note, task) == [kind |-> "msg", pc |-> pc, note |-> note, task |-> task]

\* variant of Forwards: handleMessage without its forwarding branch
ForwardsNever(s) == FALSE

\* the guard of the forwarding branch: session.isProcessing && session.agent
Forwards(s) == s.isProcessing /\ s.agent # 0

\* ClaudeAgent.sendMessage throws unless this.proc (and its stdin) exists
NotStarted(ag) == ag.proc = 0

\* ClaudeAgent.sendMessage: a line written to the stdin of the process
ClaudeWrite(ps, p) ==
  [ps EXCEPT ![p].phase = IF @ = "idle" THEN "running" ELSE @]

\* handleMessage, forwarding branch, interactive variant
MsgForwardClaude ==
  /\ upd.pc = "done"
  /\ agentKind = "claude"
  /\ Forwards(session)
  /\ IF NotStarted(agents[session.agent])
     THEN /\ upd' = MsgUpd("return", "Process not started", session.agent)
          /\ procs' = procs
     ELSE /\ upd' = MsgUpd("return", "forwarded", session.agent)
          /\ procs' = ClaudeWrite(procs, agents[session.agent].proc)
  /\ UNCHANGED <<config, texts, issued, session, agents, handlers, nTask, since>>

\* handleMessage, forwarding branch, spawn-per-turn variant: sendMessage
\* awaits the close of a process that is still running, else runCommand
\* spawns the process of this turn at once (spawn() returns or throws)
MsgForwardOpenCode ==
  /\ upd.pc = "done"
  /\ agentKind = "opencode"
  /\ Forwards(session)
  /\ LET a == session.agent IN
     IF agents[a].proc # 0
     THEN /\ upd' = MsgUpd("oc_wait", "", a)
          /\ UNCHANGED <<procs, agents>>
     ELSE \/ /\ CanSpawn
             /\ procs' = Append(procs, NewProc(a, agents[a]))
             /\ agents' = [agents EXCEPT ![a].proc = Len(procs) + 1]
             /\ upd' = MsgUpd("return", "spawned", a)
          \/ /\ upd' = MsgUpd("return", "threw", a)
             /\ UNCHANGED <<procs, agents>>
  /\ UNCHANGED <<config, texts, issued, session, handlers, nTask, since>>

\* handleMessage, new task, up to the await of ctx.reply("Thinking...")
beginTask(s) == resetMessageBlocks([s EXCEPT !.isProcessing = TRUE])

MsgStart ==
  /\ upd.pc = "done"
  /\ ~Forwards(session)
  /\ nTask < MaxTasks
  /\ upd' = MsgUpd("thinking", "", nTask + 1)
  /\ session' = beginTask(session)
  /\ nTask' = nTask + 1
  /\ UNCHANGED <<config, texts, issued, agents, procs, handlers, since>>

\* the reply was sent: the status slot is bound and the agent constructed
bindTask(s, m, t) ==
  [s EXCEPT !.statusMsgId = m, !.lastStatus = "Thinking...", !.agent = t]

\* handleMessage from the resolution of ctx.reply("Thinking...") on:
\* createAgent, setOnClose, start()
MsgThinkingSent ==
  /\ upd.pc = "thinking"
  /\ LET t == upd.task
         ag == createAgent(session.sessionId)
     IN /\ session' = bindTask(session, Msg(t), t)
        /\ \/ /\ CanSpawn          \* spawn() returns a child process
              /\ procs' = Append(procs, NewProc(t, ag))
              /\ agents' = [agents EXCEPT ![t] = [ag EXCEPT !.proc = Len(procs) + 1]]
              /\ upd' = [upd EXCEPT !.pc = "return", !.note = "started"]
           \/ /\ procs' = procs    \* spawn() throws: start() rejects
              /\ agents' = [agents EXCEPT ![t] = ag]
              /\ upd' = [upd EXCEPT !.pc = "err_reply", !.note = "Error:"]
  /\ since' = "none"
  /\ UNCHANGED <<config, texts, issued, handlers, nTask>>

\* ctx.reply("Thinking...") rejects: handleMessage throws
MsgThinkingFailed ==
  /\ upd.pc = "thinking"
  /\ upd' = [upd EXCEPT !.pc = "return", !.note = "threw"]
  /\ UNCHANGED <<config, texts, issued, session, agents, procs, handlers, nTask, since>>

\* the catch block of handleMessage after ctx.reply("Error: ...") resolved
startFailed(s) == [s EXCEPT !.isProcessing = FALSE]

MsgErrReplySent ==
  /\ upd.pc = "err_reply"
  /\ session' = startFailed(session)
  /\ upd' = [upd EXCEPT !.pc = "return", !.note = "Error: sent"]
  /\ UNCHANGED <<config, texts, issued, agents, procs, handlers, nTask, since>>

\* ctx.reply("Error: ...") rejects inside the catch block: handleMessage throws
MsgErrReplyFailed ==
  /\ upd.pc = "err_reply"
  /\ upd' = [upd EXCEPT !.pc = "return", !.note = "Error: not sent"]
  /\ UNCHANGED <<config, texts, issued, session, agents, procs, handlers, nTask, since>>

(***************************************************************************)
(* Normalized events and the presenter.  A handler record is one           *)
(* invocation of handleEvent or of the onClose callback suspended at a     *)
(* chat call; pc names the call it awaits, task the agent it belongs to.   *)
(* A handler is tracked for as long as the outcome of the call it awaits   *)
(* decides what it does next: once it awaits a last call whose result it   *)
(* ignores, nothing it does can be observed and it is dropped.  The close  *)
(* callback is tracked up to its last call, the reply with the error text. *)
(***************************************************************************)
Ev(type, sid, empty, err) == [type |-> type, sid |-> sid, empty |-> empty, err |-> err]

\* ev is the number of the event in the order of emission, where followed
H(kind, pc, task, more) ==
  [kind |-> kind, pc |-> pc, task |-> task, more |-> more, len |-> 0, ev |-> 0]

\* the close callback suspended at a chat call; len is errorMsg.length
HClose(pc, task, len) ==
  [kind |-> "close", pc |-> pc, task |-> task, more |-> FALSE, len |-> len, ev |-> 0]

ToolDisplay == "tool"     \* formatToolUse(...) of the tool used

\* variant of EventSession whose done case leaves the busy flag alone
EventSessionDoneKeepsBusy(s, ev) ==
  CASE ev.type = "init" -> [s EXCEPT !.sessionId = ev.sid]
    [] ev.type = "tool_use" -> [s EXCEPT !.lastStatus = "tool"]
    [] OTHER -> s

\* processNormalizedEvent up to its first await: the session afterwards
EventSession(s, ev) ==
  CASE ev.type = "init" -> [s EXCEPT !.sessionId = ev.sid]
    [] ev.type = "tool_use" -> [s EXCEPT !.lastStatus = ToolDisplay]
    [] ev.type = "done" -> [s EXCEPT !.isProcessing = FALSE]
    [] OTHER -> s

\* updateResponseBlock up to its first await
ResponseCall(s) == IF s.responseMsgId # NoMsg THEN "resp_edit_md" ELSE "resp_send_md"

\* updateOutputBlock up to its first await
OutputCall(s) == IF s.outputMsgId # NoMsg THEN "out_edit" ELSE "out_send"

\* processNormalizedEvent up to its first await: the chat call it awaits,
\* as a sequence of at most one handler record
EventHandler(s, ev, t) ==
  CASE ev.type = "tool_output" ->
         IF ev.empty \/ fullMode THEN <<>>
         ELSE <<H("tool_output", OutputCall(s), t, FALSE)>>
    [] ev.type = "text" ->
         IF ev.empty THEN <<>>
         ELSE IF fullMode THEN <<H("text", "reply_md", t, FALSE)>>
         ELSE IF s.statusMsgId # NoMsg THEN <<H("text", "status_edit", t, FALSE)>>
         ELSE <<H("text", ResponseCall(s), t, FALSE)>>
    [] ev.type = "done" ->
         IF ~ev.err THEN <<>>
         ELSE IF fullMode THEN <<H("done", "reply", t, TRUE)>>
         ELSE IF s.statusMsgId # NoMsg THEN <<H("done", "status_edit", t, TRUE)>>
         ELSE <<>>
    [] OTHER -> <<>>   \* init; tool_use and error await one last call

\* lengths of the trimmed standard error text a process has written when it
\* closes: none, just short enough to be shown, just too long
StderrLens == {0, CrashMsgLimit - 1, CrashMsgLimit}

\* errorMsg = stderr.trim() || `Process exited with code ${code}`
ErrorMsgLen(stderr) == IF stderr # 0 THEN stderr ELSE ExitMsgLen

\* variant of Reportable with the limit off by one
ReportableUpTo(len) == len > 0 /\ len <= CrashMsgLimit

\* errorMsg.length > 0 && errorMsg.length < 500
Reportable(len) == len > 0 /\ len < CrashMsgLimit

RemoveAt(q, i) == SubSeq(q, 1, i - 1) \o SubSeq(q, i + 1, Len(q))

\* the handler goes on to another chat call
Goes(i, pc) ==
  /\ handlers' = [handlers EXCEPT ![i].pc = pc, ![i].more = FALSE]
  /\ UNCHANGED session

\* the handler returns (or throws) without touching the session
Finish(i) ==
  /\ handlers' = RemoveAt(handlers, i)
  /\ UNCHANGED session

\* a send resolved: the slot is bound to the new message
bindOutput(s, m) == [s EXCEPT !.outputMsgId = m]
bindResponse(s, m) == [s EXCEPT !.responseMsgId = m]

Binds(i, s) ==
  /\ session' = s
  /\ handlers' = RemoveAt(handlers, i)

\* variant of AfterStatusEdit in which a rejected edit unbinds the slot
AfterStatusEditUnbinds(i, ok) ==
  IF ok THEN Finish(i)
  ELSE Binds(i, [session EXCEPT !.statusMsgId = NoMsg])

\* updateStatusBlock returns: it swallows a rejected edit, so the caller
\* goes on as after an edit that resolved (text to updateResponseBlock,
\* done and close to their last reply)
AfterStatusEdit(i, ok) ==
  LET h == handlers[i] IN
  IF h.kind = "text" THEN Goes(i, ResponseCall(session))
  ELSE IF h.kind = "close" /\ Reportable(h.len) THEN Goes(i, "reply")
  ELSE Finish(i)

\* the chat call awaited by handler i resolves (ok) or rejects: what the
\* handler does to the session and where it suspends next
HandlerResumes(i, ok) ==
  LET h == handlers[i]
      m == Msg(h.task)
  IN
     CASE h.pc = "status_edit" -> AfterStatusEdit(i, ok)
       [] h.pc = "reply" -> Finish(i)     \* done, full mode: the error reply if ok
       [] h.pc = "reply_md" -> Finish(i)  \* text, full mode: the plain reply if not ok
       [] h.pc = "out_edit" -> IF ok THEN Finish(i) ELSE Goes(i, "out_send")
       [] h.pc = "out_send" ->
            IF ok THEN Binds(i, bindOutput(session, m)) ELSE Finish(i)
       [] h.pc = "resp_edit_md" -> IF ok THEN Finish(i) ELSE Goes(i, "resp_edit_plain")
       [] h.pc = "resp_edit_plain" -> IF ok THEN Finish(i) ELSE Goes(i, "resp_send_md")
       [] h.pc = "resp_send_md" ->
            IF ok THEN Binds(i, bindResponse(session, m)) ELSE Goes(i, "resp_send_plain")
       [] h.pc = "resp_send_plain" ->
            IF ok THEN Binds(i, bindResponse(session, m)) ELSE Finish(i)

HandlerStep(i, ok) ==
  /\ HandlerResumes(i, ok)
  /\ UNCHANGED <<config, texts, issued, agents, procs, upd, nTask, since>>

ChatResolves == \E i \in 1..Len(handlers) : HandlerStep(i, TRUE)
ChatRejects == \E i \in 1..Len(handlers) : HandlerStep(i, FALSE)

(***************************************************************************)
(* The child processes.  A process that was killed still delivers the      *)
(* output it wrote and its close event.  The interactive backend reports   *)
(* init first and ends each turn with a result; the spawn-per-turn backend *)
(* runs one turn and exits.                                                *)
(***************************************************************************)
\* onEvent(normalized): handleEvent runs up to its first await
Deliver(t, ev) ==
  /\ Len(handlers) + Len(EventHandler(session, ev, t)) <= MaxPending
  /\ session' = EventSession(session, ev)
  /\ handlers' = handlers \o EventHandler(session, ev, t)

\* stdout line {type: "system", subtype: "init"} of the interactive backend
ClaudeInit(p) ==
  /\ agentKind = "claude" /\ Open(p) /\ procs[p].phase = "fresh"
  /\ \E sid \in SessionIds : Deliver(procs[p].agent, Ev("init", sid, FALSE, FALSE))
  /\ procs' = [procs EXCEPT ![p].phase = "running"]
  /\ UNCHANGED <<config, texts, issued, agents, upd, nTask, since>>

\* stdout lines of type assistant / user of the interactive backend
ClaudeEvent(p) ==
  /\ agentKind = "claude" /\ Open(p) /\ procs[p].phase = "running"
  /\ \E type \in {"tool_use", "tool_output", "text"}, empty \in BOOLEAN :
       /\ type # "text" => ~empty
       /\ Deliver(procs[p].agent, Ev(type, None, empty, FALSE))
  /\ UNCHANGED <<config, texts, issued, agents, procs, upd, nTask, since>>

\* stdout line of type result of the interactive backend
ClaudeResult(p) ==
  /\ agentKind = "claude" /\ Open(p) /\ procs[p].phase = "running"
  /\ \E err \in BOOLEAN : Deliver(procs[p].agent, Ev("done", None, FALSE, err))
  /\ procs' = [procs EXCEPT ![p].phase = "idle"]
  /\ UNCHANGED <<config, texts, issued, agents, upd, nTask, since>>

\* handleOpenCodeEvent: init is synthesized from the first event that
\* carries a session id, then the event itself is normalized and delivered
OpenCodeEvent(p) ==
  /\ agentKind = "opencode" /\ Open(p)
  /\ LET a == procs[p].agent
         first == agents[a].sid = None
     IN \E sid \in SessionIds, type \in {"tool_use", "text", "error"}, empty \in BOOLEAN :
          /\ type # "text" => ~empty
          /\ LET s1 == IF first THEN EventSession(session, Ev("init", sid, FALSE, FALSE))
                       ELSE session
                 ev == Ev(type, sid, empty, FALSE)
             IN /\ Len(handlers) + Len(EventHandler(s1, ev, a)) <= MaxPending
                /\ session' = EventSession(s1, ev)
                /\ handlers' = handlers \o EventHandler(s1, ev, a)
          /\ agents' = IF first THEN [agents EXCEPT ![a].sid = sid] ELSE agents
  /\ UNCHANGED <<config, texts, issued, procs, upd, nTask, since>>

\* the callback registered with setOnClose, up to its first await
CloseSession(s) == IF s.isProcessing THEN [s EXCEPT !.isProcessing = FALSE] ELSE s

CloseHandler(s, t, stderr) ==
  IF ~s.isProcessing THEN <<>>
  ELSE IF s.statusMsgId # NoMsg THEN <<HClose("status_edit", t, ErrorMsgLen(stderr))>>
  ELSE IF Reportable(ErrorMsgLen(stderr)) THEN <<HClose("reply", t, ErrorMsgLen(stderr))>>
  ELSE <<>>

\* proc.on("close") of ClaudeAgent
ClaudeClose(p) ==
  /\ agentKind = "claude" /\ Open(p)
  /\ \E stderr \in StderrLens :
       /\ Len(handlers) + Len(CloseHandler(session, procs[p].agent, stderr)) <= MaxPending
       /\ handlers' = handlers \o CloseHandler(session, procs[p].agent, stderr)
  /\ procs' = [procs EXCEPT ![p] = Closed(@)]
  /\ agents' = [agents EXCEPT ![procs[p].agent].proc = 0]
  /\ session' = CloseSession(session)
  /\ UNCHANGED <<config, texts, issued, upd, nTask, since>>

\* the normalized events the close handler of the adapter passes to onEvent:
\* none in ClaudeAgent, which only calls the close callback; a done event
\* without content in OpenCodeAgent
CloseEvents(p) ==
  IF agentKind = "opencode"
  THEN <<Ev("done", agents[procs[p].agent].sid, FALSE, FALSE)>>
  ELSE <<>>

\* proc.on("close") of OpenCodeAgent: a done event is delivered, then the
\* close callback runs; a sendMessage waiting for this close then goes on
\* to spawn the next turn (spawn() returns or throws)
OpenCodeClose(p) ==
  /\ agentKind = "opencode" /\ Open(p)
  /\ LET a == procs[p].agent
         done == CloseEvents(p)[1]
         s1 == EventSession(session, done)
         closed == [procs EXCEPT ![p] = Closed(@)]
         ag == [agents[a] EXCEPT !.proc = 0]
     IN /\ \E stderr \in StderrLens :
             LET hs == EventHandler(session, done, a) \o CloseHandler(s1, a, stderr)
             IN /\ Len(handlers) + Len(hs) <= MaxPending
                /\ handlers' = handlers \o hs
        /\ session' = CloseSession(s1)
        /\ IF upd.pc = "oc_wait" /\ upd.task = a
           THEN \/ /\ CanSpawn
                   /\ procs' = Append(closed, NewProc(a, ag))
                   /\ agents' = [agents EXCEPT ![a] = [ag EXCEPT !.proc = Len(procs) + 1]]
                   /\ upd' = [upd EXCEPT !.pc = "return", !.note = "spawned"]
                \/ /\ procs' = closed
                   /\ agents' = [agents EXCEPT ![a] = ag]
                   /\ upd' = [upd EXCEPT !.pc = "return", !.note = "threw"]
           ELSE /\ procs' = closed
                /\ agents' = [agents EXCEPT ![a] = ag]
                /\ upd' = upd
  /\ UNCHANGED <<config, texts, issued, nTask, since>>

Next ==
  \/ CmdNew
  \/ CmdStop
  \/ CmdResume
  \/ CmdCd(CdArgs)
  \/ BangCd(CdArgs)
  \/ UpdReturn
  \/ MsgForwardClaude
  \/ MsgForwardOpenCode
  \/ MsgStart
  \/ MsgThinkingSent
  \/ MsgThinkingFailed
  \/ MsgErrReplySent
  \/ MsgErrReplyFailed
  \/ ChatResolves
  \/ ChatRejects
  \/ \E p \in 1..Len(procs) :
       \/ ClaudeInit(p)
       \/ ClaudeEvent(p)
       \/ ClaudeResult(p)
       \/ OpenCodeEvent(p)
       \/ ClaudeClose(p)
       \/ OpenCodeClose(p)

Spec == Init /\ [][Next]_vars

(***************************************************************************)
(* Directory changes alone, with path arguments of every shape: ".", "..", *)
(* "~", "~/a", relative, absolute, absolute with ".." inside.  A stored    *)
(* path can grow with every relative argument; stored paths of up to       *)
(* MaxPathLen segments are followed.                                       *)
(***************************************************************************)
PathArgs ==
  {Arg("rel", <<".">>), Arg("rel", <<"..">>), Arg("rel", <<"a">>),
   Arg("tilde", <<>>), Arg("tilde", <<"a">>),
   Arg("abs", <<"srv">>), Arg("abs", <<"srv", "..", "a">>)}

CdWithin(args) == CmdCd(args) /\ Len(session'.cwd) <= MaxPathLen
BangCdWithin(args) == BangCd(args) /\ Len(session'.cwd) <= MaxPathLen

NextCd ==
  \/ CdWithin(PathArgs)
  \/ BangCdWithin(PathArgs)

SpecCd == Init /\ [][NextCd]_vars

(***************************************************************************)
(* The bridge with shell escapes: every step of Next, or a '!command' that *)
(* is not a cd.                                                            *)
(***************************************************************************)
NextBang ==
  \/ Next
  \/ BangExec

SpecBang == Init /\ [][NextBang]_vars

(***************************************************************************)
(* One agent instance.  Its caller calls start once and first, then        *)
(* sendMessage and stop, one call at a time.  A child process writes to    *)
(* its standard error, exits (exitCode is set), and closes once its        *)
(* streams have ended; data already written can arrive between the two.    *)
(***************************************************************************)
NewKid ==
  [st |-> "running", wrote |-> 0, kills |-> 0, closes |-> 0, got |-> <<>>,
   flag |-> None, out |-> 0, code |-> "null", log |-> <<>>]

\* what the handlers of a process hand to the two callbacks of the agent,
\* in order: an event given to onEvent, or the call of the close callback
Told(type, err) == [type |-> type, err |-> err]

\* this.proc = spawn(...); runCommand of OpenCodeAgent then empties the
\* buffers, start of ClaudeAgent does not
Spawned(a) ==
  [a EXCEPT !.kids = Append(@, [NewKid EXCEPT !.flag = ResumeFlag(a)]),
            !.proc = Len(a.kids) + 1,
            !.stderrBuffer = IF agentKind = "opencode" THEN <<>> ELSE @]

\* stop(): if (this.proc) { this.proc.kill(); this.proc = null; }
Stopped(a) ==
  IF a.proc # 0
  THEN [a EXCEPT !.kids[a.proc].kills = @ + 1, !.proc = 0]
  ELSE a

\* isRunning(): this.proc !== null, and for OpenCodeAgent also
\* this.proc.exitCode === null
IsRunning(a) ==
  /\ a.proc # 0
  /\ agentKind = "opencode" => a.kids[a.proc].st = "running"

\* new Agent(options, onEvent), then start(prompt)
AgStart ==
  /\ ~ad.started /\ ad.pc = "idle"
  /\ \E opt \in {None, Continue} \cup SessionIds :
       ad' = Spawned([ad EXCEPT !.started = TRUE,
                                !.opt = opt,
                                !.sid = createAgent(opt).sid])
  /\ UNCHANGED <<vars_session, texts, shell, calls, nEv, sender, fn>>

\* stop(), in every state of the agent
AgStop ==
  /\ ad.pc = "idle"
  /\ ad' = Stopped(ad)
  /\ UNCHANGED <<vars_session, texts, shell, calls, nEv, sender, fn>>

\* sendMessage(text) of OpenCodeAgent: await the close of a process whose
\* exitCode is still null, then runCommand.  (sendMessage of ClaudeAgent
\* writes to the standard input of this.proc and changes nothing here.)
AgSend ==
  /\ agentKind = "opencode"
  /\ ad.started /\ ad.pc = "idle"
  /\ Len(ad.kids) < MaxKids
  /\ ad' = IF ad.proc # 0 /\ ad.kids[ad.proc].st = "running"
            THEN [ad EXCEPT !.pc = "wait", !.waitOn = ad.proc]
            ELSE Spawned(ad)
  /\ UNCHANGED <<vars_session, texts, shell, calls, nEv, sender, fn>>

\* proc.stderr.on("data"): the chunk is appended to this.stderrBuffer
AgStderr(k) ==
  /\ ad.kids[k].st # "closed"
  /\ ad.kids[k].wrote < MaxStderr
  /\ ad' = [ad EXCEPT !.kids[k].wrote = @ + 1,
                       !.stderrBuffer = Append(@, k)]
  /\ UNCHANGED <<vars_session, texts, shell, calls, nEv, sender, fn>>

\* proc.stdout.on("data") of OpenCodeAgent with one complete line:
\* handleOpenCodeEvent gives onEvent an init if this.sessionId is not set,
\* and then the normalized event
AgStdout(k) ==
  /\ agentKind = "opencode"
  /\ ad.kids[k].st # "closed"
  /\ ad.kids[k].out < MaxOut
  /\ \E sid \in SessionIds :
       ad' = [ad EXCEPT !.kids[k].out = @ + 1,
                        !.sid = IF @ = None THEN sid ELSE @,
                        !.kids[k].log = @ \o (IF ad.sid = None
                                                THEN <<Told("init", FALSE)>> ELSE <<>>)
                                          \o <<Told("event", FALSE)>>]
  /\ UNCHANGED <<vars_session, texts, shell, calls, nEv, sender, fn>>

\* the process ends, by itself or killed: exitCode is set
AgExit(k) ==
  /\ ad.kids[k].st = "running"
  /\ ad' = [ad EXCEPT !.kids[k].st = "exited"]
  /\ UNCHANGED <<vars_session, texts, shell, calls, nEv, sender, fn>>

\* proc.on("close", code): this.proc = null, OpenCodeAgent gives onEvent a
\* done event with isError: code !== 0, then the close callback is called
\* with this.stderrBuffer; a sendMessage that awaited this close goes on
\* to runCommand.  The code is null when a signal ended the process.
AgClose(k) ==
  /\ ad.kids[k].st = "exited"
  /\ \E code \in {"0", "1"} \cup (IF ad.kids[k].kills > 0 THEN {"null"} ELSE {}) :
       LET a1 == [ad EXCEPT !.kids[k].st = "closed",
                            !.kids[k].closes = @ + 1,
                            !.kids[k].got = ad.stderrBuffer,
                            !.kids[k].code = code,
                            !.kids[k].log =
                               @ \o (IF agentKind = "opencode"
                                       THEN <<Told("done", code # "0")>>
                                       ELSE <<>>)
                                 \o <<Told("close", FALSE)>>,
                            !.proc = 0]
       IN ad' = IF ad.pc = "wait" /\ ad.waitOn = k
                THEN Spawned([a1 EXCEPT !.pc = "idle", !.waitOn = 0])
                ELSE a1
  /\ UNCHANGED <<vars_session, texts, shell, calls, nEv, sender, fn>>

NextAgent ==
  \/ AgStart
  \/ AgStop
  \/ AgSend
  \/ \E k \in 1..Len(ad.kids) :
       \/ AgStderr(k)
       \/ AgExit(k)
       \/ AgClose(k)

SpecAgent == Init /\ [][NextAgent]_vars

\* the turns of one agent instance with what its processes write to their
\* standard output
NextTurns ==
  \/ AgStart
  \/ AgStop
  \/ AgSend
  \/ \E k \in 1..Len(ad.kids) :
       \/ AgStdout(k)
       \/ AgExit(k)
       \/ AgClose(k)

SpecTurns == Init /\ [][NextTurns]_vars

(***************************************************************************)
(* The functions of utils.ts.  A string is the sequence of its characters. *)
(***************************************************************************)
RECURSIVE Strings(_, _)
Strings(alphabet, n) ==
  IF n = 0 THEN {<<>>}
  ELSE LET shorter == Strings(alphabet, n - 1)
       IN shorter \cup {Append(s, c) : s \in shorter, c \in alphabet}

\* s.startsWith(c) for a string c of one character
StartsWith(s, c) == Len(s) > 0 /\ s[1] = c

\* s.split("/"): the pieces between the slashes, empty ones included
RECURSIVE Split(_, _, _)
Split(s, piece, pieces) ==
  IF s = <<>> THEN Append(pieces, piece)
  ELSE IF Head(s) = "/" THEN Split(Tail(s), <<>>, Append(pieces, piece))
  ELSE Split(Tail(s), Append(piece, Head(s)), pieces)

\* parts.join("/")
RECURSIVE Join(_)
Join(parts) ==
  IF parts = <<>> THEN <<>>
  ELSE IF Len(parts) = 1 THEN parts[1]
  ELSE parts[1] \o <<"/">> \o Join(Tail(parts))

\* variant of Pushed that pushes every part but ".."
PushedAlways(part) == TRUE

\* else if (part !== ".") resolved.push(part)
Pushed(part) == part # <<".">>

\* .filter(Boolean) and the loop over the parts
RECURSIVE Resolved(_, _)
Resolved(parts, resolved) ==
  IF parts = <<>> THEN resolved
  ELSE LET part == Head(parts) IN
       IF part = <<>> THEN Resolved(Tail(parts), resolved)
       ELSE IF part = <<".", ".">>
       THEN Resolved(Tail(parts),
                     IF resolved = <<>> THEN <<>>
                     ELSE SubSeq(resolved, 1, Len(resolved) - 1))
       ELSE IF Pushed(part) THEN Resolved(Tail(parts), Append(resolved, part))
       ELSE Resolved(Tail(parts), resolved)

\* path.replace("~", home) of a path that starts with "~"
Expanded(path, home) == IF StartsWith(path, "~") THEN home \o Tail(path) ELSE path

\* `${cwd}/${path}` of a path that does not start with "/"
Prefixed(path, cwd) == IF StartsWith(path, "/") THEN path ELSE cwd \o <<"/">> \o path

resolvePath(inputPath, cwd, home) ==
  <<"/">> \o Join(Resolved(Split(Prefixed(Expanded(inputPath, home), cwd), <<>>, <<>>), <<>>))

PathChars == {"/", ".", "~", "a"}
InputPaths == Strings(PathChars, MaxInput)
Cwds == {<<"/">>, <<"/", "c">>, <<"/", "c", "/", "d">>}
Homes == {<<"/", "h">>}

\* a call that has not returned yet
Called(name, args) == [name |-> name, args |-> args, out |-> <<>>, done |-> FALSE]

ResolvePathCalls ==
  {Called("resolvePath", <<inputPath, cwd, home>>) :
     inputPath \in InputPaths, cwd \in Cwds, home \in Homes}

ResolvePath ==
  /\ fn.name = "resolvePath" /\ ~fn.done
  /\ fn' = [fn EXCEPT !.out = resolvePath(fn.args[1], fn.args[2], fn.args[3]),
                      !.done = TRUE]
  /\ UNCHANGED <<vars_session, texts, shell, calls, nEv, sender, ad>>

(* stripThinkingTags.  A text is a sequence of pieces: the two halves of   *)
(* an opening tag, "<thin" and "king>", which make the tag only side by    *)
(* side, the closing tag, a space and a letter.                            *)
OpensAt(s) == Len(s) >= 2 /\ s[1] = "<thin" /\ s[2] = "king>"
ClosesAt(s) == {j \in 3..Len(s) : s[j] = "</thinking>"}

\* text.replace(/<thinking>[\s\S]*?<\/thinking>/g, ""): one pass from the
\* left; each match runs from an opening tag to the first closing tag
\* after it, and the search goes on behind the match
RECURSIVE Replaced(_, _)
Replaced(s, out) ==
  IF s = <<>> THEN out
  ELSE IF OpensAt(s) /\ ClosesAt(s) # {}
  THEN LET j == CHOOSE j \in ClosesAt(s) : \A k \in ClosesAt(s) : j <= k
       IN Replaced(SubSeq(s, j + 1, Len(s)), out)
  ELSE Replaced(Tail(s), Append(out, Head(s)))

\* .trim()
RECURSIVE Trimmed(_)
Trimmed(s) ==
  IF s = <<>> THEN s
  ELSE IF Head(s) = " " THEN Trimmed(Tail(s))
  ELSE IF s[Len(s)] = " " THEN Trimmed(SubSeq(s, 1, Len(s) - 1))
  ELSE s

stripThinkingTags(text) == Trimmed(Replaced(text, <<>>))

Pieces == {"<thin", "king>", "</thinking>", " ", "x"}

StripCalls == {Called("stripThinkingTags", <<text>>) : text \in Strings(Pieces, MaxPieces)}

StripThinkingTags ==
  /\ fn.name = "stripThinkingTags" /\ ~fn.done
  /\ fn' = [fn EXCEPT !.out = stripThinkingTags(fn.args[1]), !.done = TRUE]
  /\ UNCHANGED <<vars_session, texts, shell, calls, nEv, sender, ad>>

(* formatToolUse.  The result is a verb or name, and in backticks (tick)   *)
(* the text taken from the input and what follows it.                      *)
Shown(pre, tick, body, post) == [pre |-> pre, tick |-> tick, body |-> body, post |-> post]

\* variant of LongCommand that cuts a command of exactly the limit
LongCommandFrom(cmd) == cmd.len >= BashLimit

\* cmd.length > 50
LongCommand(cmd) == cmd.len > BashLimit

\* tool.name and the field of tool.input its case reads: command,
\* file_path or pattern
formatToolUse(name, text) ==
  CASE name = "Bash" ->
         IF LongCommand(text) THEN Shown("", TRUE, Text(text.id, BashLimit), "...")
         ELSE Shown("", TRUE, text, "")
    [] name = "Read" -> Shown("Reading ", TRUE, text, "")
    [] name = "Edit" -> Shown("Editing ", TRUE, text, "")
    [] name = "Write" -> Shown("Writing ", TRUE, text, "")
    [] name = "Glob" -> Shown("Searching ", TRUE, text, "")
    [] name = "Grep" -> Shown("Grepping ", TRUE, text, "")
    [] name = "Task" -> Shown("Running task...", FALSE, NoText, "")
    [] OTHER -> Shown(name, FALSE, NoText, "")

ToolNames == {"Bash", "Read", "Edit", "Write", "Glob", "Grep", "Task", "WebFetch"}
ToolTextLens == {0, 1, BashLimit - 1, BashLimit, BashLimit + 1, BashLimit + 2}

FormatCalls ==
  {Called("formatToolUse", <<name, Text(1, len)>>) : name \in ToolNames, len \in ToolTextLens}

FormatToolUse ==
  /\ fn.name = "formatToolUse" /\ ~fn.done
  /\ fn' = [fn EXCEPT !.out = formatToolUse(fn.args[1], fn.args[2]), !.done = TRUE]
  /\ UNCHANGED <<vars_session, texts, shell, calls, nEv, sender, ad>>

\* a function is called with its arguments; nothing else is going on
(* The stdout handler of an adapter.  The output of the process is a      *)
(* sequence of bytes: "a" a byte of JSON text, "!" a byte that makes its   *)
(* line unparseable, " " a blank, "nl" the newline, and "c3" "a9" the two  *)
(* bytes of one character of UTF-8.  A read chunk is a piece of it.        *)
StdoutBytes == {"a", "!", " ", "nl", "c3", "a9"}

\* data.toString(): an incomplete or orphaned byte decodes to U+FFFD ("?")
RECURSIVE toString(_)
toString(data) ==
  IF data = <<>> THEN <<>>
  ELSE IF Head(data) = "c3" /\ Len(data) >= 2 /\ data[2] = "a9"
    THEN <<"e'">> \o toString(Tail(Tail(data)))
  ELSE IF Head(data) \in {"c3", "a9"} THEN <<"?">> \o toString(Tail(data))
  ELSE <<Head(data)>> \o toString(Tail(data))

\* text.split("\n"), from the left: the finished lines and the open one
RECURSIVE SplitLines(_, _, _)
SplitLines(s, line, lines) ==
  IF s = <<>> THEN Append(lines, line)
  ELSE IF Head(s) = "nl" THEN SplitLines(Tail(s), <<>>, Append(lines, line))
  ELSE SplitLines(Tail(s), Append(line, Head(s)), lines)

\* JSON.parse(line) returns (the event is the text without its blanks)
Parses(line) == \A i \in 1..Len(line) : line[i] # "!"

\* the loop over the finished lines: blank lines are skipped, a line that
\* does not parse is logged, any other line is handed to the event handler
RECURSIVE Delivered(_, _)
Delivered(lines, events) ==
  IF lines = <<>> THEN events
  ELSE Delivered(Tail(lines),
         IF Trimmed(Head(lines)) # <<>> /\ Parses(Head(lines))
           THEN Append(events, Trimmed(Head(lines)))
           ELSE events)

\* on("data"): buffer += data.toString(); lines = buffer.split("\n");
\* buffer = lines.pop() || ""; then the loop
onData(st, data) ==
  LET lines == SplitLines(st.buffer \o toString(data), <<>>, <<>>)
  IN [buffer |-> lines[Len(lines)],
      events |-> Delivered(SubSeq(lines, 1, Len(lines) - 1), st.events)]

\* what a process can write: well-formed UTF-8
WellFormed(s) ==
  \A i \in 1..Len(s) :
    /\ s[i] = "c3" => i < Len(s) /\ s[i + 1] = "a9"
    /\ s[i] = "a9" => i > 1 /\ s[i - 1] = "c3"

Outputs == {s \in Strings(StdoutBytes, MaxStdout) : WellFormed(s)}

\* the ways a stream arrives as non-empty read chunks
RECURSIVE Chunkings(_)
Chunkings(s) ==
  IF s = <<>> THEN {<<>>}
  ELSE UNION {{<<SubSeq(s, 1, k)>> \o rest :
                 rest \in Chunkings(SubSeq(s, k + 1, Len(s)))} : k \in 1..Len(s)}

\* a process whose output args[1] is still to arrive as the chunks args[2]
StdoutCalls ==
  UNION {{[name |-> "stdout", args |-> <<s, chunks>>,
           out |-> [buffer |-> <<>>, events |-> <<>>], done |-> FALSE] :
            chunks \in Chunkings(s)} : s \in Outputs \ {<<>>}}

\* one read chunk arrives
StdoutData ==
  /\ fn.name = "stdout" /\ ~fn.done
  /\ fn' = [fn EXCEPT !.args[2] = Tail(@),
                      !.out = onData(fn.out, Head(fn.args[2])),
                      !.done = Len(fn.args[2]) = 1]
  /\ UNCHANGED <<vars_session, texts, shell, calls, nEv, sender, ad>>

InitUtils ==
  /\ agentKind = "claude"
  /\ fullMode = FALSE
  /\ session = getSession
  /\ agents = [t \in Tasks |-> NoAgent]
  /\ procs = <<>>
  /\ handlers = <<>>
  /\ upd = NoUpd
  /\ nTask = 0
  /\ since = "none"
  /\ longMessages = <<>>
  /\ now = 0
  /\ nLong = 0
  /\ chat = NoChat
  /\ cb = NoCb
  /\ calls = <<>>
  /\ nEv = 0
  /\ sender = AllowedUserId
  /\ ad = NewAgent
  /\ shell = NewShell
  /\ fn \in ResolvePathCalls \cup StripCalls \cup FormatCalls \cup StdoutCalls

NextUtils ==
  \/ ResolvePath
  \/ StripThinkingTags
  \/ FormatToolUse
  \/ StdoutData

SpecUtils == InitUtils /\ [][NextUtils]_vars

(***************************************************************************)
(* The desktop shell (src/app/main.js) with a valid configuration.  A bot  *)
(* process that was killed closes later, or never; the close and error     *)
(* handlers of every process spawned stay registered.                      *)
(***************************************************************************)
\* startBot(): nothing if the indicator is on, else spawn
startBot(sh) ==
  IF sh.isRunning THEN sh
  ELSE [sh EXCEPT !.bots = Append(@, "alive"),
                  !.botProcess = Len(sh.bots) + 1,
                  !.isRunning = TRUE]

\* stopBot(): kill the process held, if any, and switch the indicator off
stopBot(sh) ==
  IF sh.botProcess # 0
  THEN [sh EXCEPT !.bots[sh.botProcess] = IF @ = "alive" THEN "killed" ELSE @,
                  !.botProcess = 0,
                  !.isRunning = FALSE]
  ELSE [sh EXCEPT !.isRunning = FALSE]

\* botProcess.on('close') and botProcess.on('error')
botGone(sh) == [sh EXCEPT !.isRunning = FALSE, !.botProcess = 0]

ShellStep(sh) ==
  /\ Len(sh.bots) <= MaxBots
  /\ shell' = sh
  /\ UNCHANGED <<vars_session, texts, calls, nEv, sender, ad, fn>>

\* tray menu: the item reads Start or Stop after the indicator
ShStart == ~shell.isRunning /\ ShellStep(startBot(shell))
ShStop == shell.isRunning /\ ShellStep(stopBot(shell))

\* ipcMain.handle('save-config'): stop if running, start 500 ms later
ShSave ==
  /\ shell.timers < MaxTimers
  /\ ShellStep([(IF shell.isRunning THEN stopBot(shell) ELSE shell)
                  EXCEPT !.timers = @ + 1])

\* the delayed start fires
ShTimer ==
  /\ shell.timers > 0
  /\ ShellStep(startBot([shell EXCEPT !.timers = @ - 1]))

\* bot process k closes, on its own or after a kill
ShClose(k) ==
  /\ shell.bots[k] # "closed"
  /\ ShellStep(botGone([shell EXCEPT !.bots[k] = "closed"]))

\* bot process k emits 'error' (it could not be spawned or killed)
ShError(k) ==
  /\ shell.bots[k] # "closed"
  /\ ShellStep(botGone(shell))

NextShell ==
  \/ ShStart
  \/ ShStop
  \/ ShSave
  \/ ShTimer
  \/ \E k \in 1..Len(shell.bots) :
       \/ ShClose(k)
       \/ ShError(k)

SpecShell == Init /\ [][NextShell]_vars

(***************************************************************************)
(* Authorization.  Every update passes the auth middleware before any      *)
(* handler: an update whose sender is not the allowed user ends there.     *)
(* The handlers already in progress, and the processes, go on whoever      *)
(* sent the latest update.                                                 *)
(***************************************************************************)
\* variant of Authorized that lets every sender through
AuthorizedAnyone(u) == TRUE

\* userId !== config.allowedUserId is false
Authorized(u) == u = AllowedUserId

\* an update arrives from u
Receive(u) ==
  /\ sender' = u
  /\ UNCHANGED <<vars_session, texts, shell, calls, nEv, ad, fn>>

\* next(): the handler registered for the update starts
StartsHandler ==
  \/ CmdNew
  \/ CmdStop
  \/ CmdResume
  \/ CmdCd(CdArgs)
  \/ BangCd(CdArgs)
  \/ BangExec
  \/ MsgForwardClaude
  \/ MsgForwardOpenCode
  \/ MsgStart

Handle == Authorized(sender) /\ StartsHandler

NextAuth ==
  \/ \E u \in Senders : Receive(u)
  \/ Handle
  \/ UpdReturn
  \/ MsgThinkingSent
  \/ MsgThinkingFailed
  \/ MsgErrReplySent
  \/ MsgErrReplyFailed
  \/ \E p \in 1..Len(procs) :
       \/ ClaudeClose(p)
       \/ OpenCodeClose(p)

SpecAuth == Init /\ [][NextAuth]_vars

(***************************************************************************)
(* The texts the presenter shows and the expandable-message table.  The    *)
(* session is left as constructed: which chat call carries a text (an edit *)
(* of a slot or a send) does not depend on the text, and is followed by    *)
(* the specifications above.  chat is the content of the latest call.      *)
(***************************************************************************)
\* text.slice(0, n)
Slice(text, n) == [text EXCEPT !.len = IF @ > n THEN n ELSE @]

\* variant of TooLong that truncates a text of exactly the limit
TooLongFrom(text, limit) == text.len >= limit

\* text.length > limit
TooLong(text, limit) == text.len > limit

\* tool output as the backend reports it: the text and the white space
\* around it; output.trim()
Output(text, pad) == [text |-> text, pad |-> pad]
Trim(output) == output.text

OutputLens == {1, OutputLimit, OutputLimit + 1}
ResponseLens == {1, ResponseLimit, ResponseLimit + 1}

\* the text updateOutputBlock (and the full-mode branch of tool_output) shows
OutputShown(output) ==
  LET text == Trim(output) IN
  [op |-> "output", of |-> text,
   body |-> IF TooLong(text, OutputLimit) THEN Slice(text, OutputLimit) ELSE text,
   mark |-> IF TooLong(text, OutputLimit) THEN "\n... (truncated)" ELSE "",
   control |-> 0]

\* case tool_output with output that is not empty after trimming, up to the
\* chat call
ToolOutput ==
  /\ \E len \in OutputLens, pad \in {0, 2} :
       chat' = OutputShown(Output(Text(0, len), pad))
  /\ UNCHANGED <<vars_session, longMessages, now, nLong, cb, issued>>

\* the Map: get, has, set (a key that is present keeps its place), delete
Has(table, key) == \E i \in DOMAIN table : table[i].key = key

Get(table, key) == (CHOOSE i \in DOMAIN table : table[i].key = key)

Set(table, key, text) ==
  IF Has(table, key)
  THEN [table EXCEPT ![Get(table, key)].text = text]
  ELSE Append(table, [key |-> key, text |-> text])

\* variant of Delete that removes nothing
DeleteNothing(table, key) == table

Delete(table, key) == SelectSeq(table, LAMBDA e : e.key # key)

\* variant of Evict that drops the entry just inserted
EvictNewest(table) ==
  IF Len(table) > TableLimit THEN SubSeq(table, 1, Len(table) - 1) ELSE table

\* if (longMessages.size > 20) delete the first key
Evict(table) ==
  IF Len(table) > TableLimit THEN Delete(table, table[1].key) ELSE table

\* the text a response is shown with: whole (full mode, or at most 1500
\* characters), or cut with the control "expand:<key>"
ResponseShown(text, key) ==
  IF ~fullMode /\ TooLong(text, ResponseLimit)
  THEN [op |-> "response", of |-> text, body |-> Slice(text, ResponseLimit),
        mark |-> "\n\n...", control |-> key]
  ELSE [op |-> "response", of |-> text, body |-> text, mark |-> "", control |-> 0]

\* case text with a short text: reply in full mode, updateResponseBlock
\* else, up to the chat call
ShortResponse ==
  /\ \E len \in ResponseLens :
       /\ ~TooLong(Text(0, len), ResponseLimit)
       /\ chat' = ResponseShown(Text(0, len), 0)
  /\ UNCHANGED <<vars_session, longMessages, now, nLong, cb, issued>>

\* Date.now() can still be the millisecond of the long response before:
\* that response was the latest text shown, and no activation of its
\* control (which takes a round trip through the chat) is in progress
SameMs ==
  /\ 0 < nLong /\ nLong <= MaxSameMs
  /\ chat.op = "response" /\ chat.control = now
  /\ ~(cb.pc # "done" /\ cb.key = now)

\* case text with a long text, up to the chat call; the key is
\* `msg_${Date.now()}`: the millisecond of the long response before, or a
\* later one
LongResponse ==
  /\ nLong < MaxLong
  /\ \E len \in ResponseLens, key \in {now, now + 1} :
       LET text == Text(nLong + 1, len) IN
       /\ TooLong(text, ResponseLimit)
       /\ key = now => SameMs
       /\ chat' = ResponseShown(text, key)
       /\ IF fullMode
          THEN UNCHANGED <<longMessages, now>>
          ELSE /\ longMessages' = Evict(Set(longMessages, key, text))
               /\ now' = key
  /\ nLong' = nLong + 1
  /\ UNCHANGED <<vars_session, cb, issued>>

\* the controls the user activates
ExpandKeys == {1, 2}

\* bot.callbackQuery(/^expand:(.+)/) up to its first await; the answer
\* "Message expired" is the last call of the handler
ExpandStart ==
  /\ cb.pc = "done"
  /\ \E key \in ExpandKeys :
       IF Has(longMessages, key)
       THEN cb' = [pc |-> "answer", key |-> key,
                   fullText |-> longMessages[Get(longMessages, key)].text,
                   note |-> ""]
       ELSE cb' = [NoCb EXCEPT !.key = key, !.note = "Message expired"]
  /\ UNCHANGED <<vars_session, longMessages, now, nLong, chat, issued>>

ExpandShown(op, text) ==
  [op |-> op, of |-> text, body |-> text, mark |-> "", control |-> 0]

\* the chat call the callback awaits resolves (ok) or rejects
ExpandStep(ok) ==
  /\ CASE cb.pc = "answer" ->
            IF ok
            THEN /\ cb' = [cb EXCEPT !.pc = "edit"]
                 /\ chat' = ExpandShown("expand_edit", cb.fullText)
                 /\ UNCHANGED longMessages
            ELSE /\ cb' = [NoCb EXCEPT !.key = cb.key, !.note = "threw"]
                 /\ UNCHANGED <<longMessages, chat>>
       [] cb.pc = "edit" ->
            IF ok
            THEN /\ longMessages' = Delete(longMessages, cb.key)
                 /\ cb' = [NoCb EXCEPT !.key = cb.key, !.note = "replaced"]
                 /\ UNCHANGED chat
            ELSE /\ cb' = [cb EXCEPT !.pc = "reply"]
                 /\ chat' = ExpandShown("expand_reply", cb.fullText)
                 /\ UNCHANGED longMessages
       [] cb.pc = "reply" ->
            IF ok
            THEN /\ longMessages' = Delete(longMessages, cb.key)
                 /\ cb' = [NoCb EXCEPT !.key = cb.key, !.note = "sent"]
                 /\ UNCHANGED chat
            ELSE /\ cb' = [NoCb EXCEPT !.key = cb.key, !.note = "threw"]
                 /\ UNCHANGED <<longMessages, chat>>
       [] OTHER -> FALSE
  /\ UNCHANGED <<vars_session, now, nLong, issued>>

ExpandResolves == ExpandStep(TRUE)
ExpandRejects == ExpandStep(FALSE)

NextTable ==
  \/ ToolOutput
  \/ ShortResponse
  \/ LongResponse
  \/ ExpandStart
  \/ ExpandResolves
  \/ ExpandRejects

SpecTable == Init /\ [][NextTable]_vars

(***************************************************************************)
(* The order of the chat calls of one task.  The task has been started:    *)
(* handleMessage has sent "Thinking...", constructed the agent, spawned    *)
(* its process and returned, and the backend has reported its session id.  *)
(* The process emits events; the stdout handler calls onEvent for each     *)
(* line of a chunk in turn and awaits none of them, so handleEvent runs up *)
(* to its first await before the next event is delivered, and any number   *)
(* of handlers are suspended at once.  calls records every chat call when  *)
(* it is issued, every message a resolved send has created, every rejected *)
(* edit of the status message and every exception a handler raised.        *)
(***************************************************************************)
Started(s) ==
  [bindTask(beginTask(s), Msg(1), 1) EXCEPT !.sessionId = "s1"]

InitPresent ==
  /\ agentKind \in {"claude", "opencode"}
  /\ fullMode \in BOOLEAN
  /\ session = Started(getSession)
  /\ agents = [t \in Tasks |->
                 IF t = 1
                 THEN [createAgent(None) EXCEPT
                         !.proc = 1,
                         !.sid = IF agentKind = "opencode" THEN "s1" ELSE None]
                 ELSE NoAgent]
  /\ procs = <<[NewProc(1, createAgent(None)) EXCEPT !.phase = "running"]>>
  /\ handlers = <<>>
  /\ upd = NoUpd
  /\ nTask = 1
  /\ since = "none"
  /\ longMessages = <<>>
  /\ now = 0
  /\ nLong = 0
  /\ chat = NoChat
  /\ cb = NoCb
  /\ calls = <<>>
  /\ nEv = 0
  /\ sender = AllowedUserId
  /\ ad = NewAgent
  /\ shell = NewShell
  /\ fn = NoCall

Call(ev, op) == [ev |-> ev, op |-> op]

\* the chat call processNormalizedEvent issues for event n before its first
\* await, as a sequence of at most one call
FirstCall(s, ev, n) ==
  IF ev.type = "tool_use"
  THEN IF fullMode THEN <<Call(n, "reply")>>
       ELSE IF s.statusMsgId # NoMsg THEN <<Call(n, "status_edit")>>
       ELSE <<>>
  ELSE [i \in DOMAIN EventHandler(s, ev, 1) |-> Call(n, EventHandler(s, ev, 1)[i].pc)]

\* a line of stdout is parsed and normalized, and onEvent runs handleEvent
\* up to its first await
Emit(p) ==
  /\ Open(p)
  /\ nEv < MaxEmitted
  /\ \E type \in {"tool_use", "tool_output", "text"} :
       LET ev == Ev(type, None, FALSE, FALSE)
           n == nEv + 1
           hs == EventHandler(session, ev, procs[p].agent)
       IN /\ session' = EventSession(session, ev)
          /\ handlers' = handlers \o [i \in DOMAIN hs |-> [hs[i] EXCEPT !.ev = n]]
          /\ calls' = calls \o FirstCall(session, ev, n)
          /\ nEv' = n
  /\ UNCHANGED <<config, texts, shell, sender, ad, fn, agents, procs, upd, nTask, since>>

\* the awaited call is outside every try block and has no catch handler:
\* its rejection leaves the handler as an exception (the sends of
\* updateOutputBlock, the plain reply of sendWithFallback, the error reply
\* of processNormalizedEvent)
Raises(h, ok) == ~ok /\ h.pc \in {"out_send", "resp_send_plain", "reply"}

\* the calls a handler issues, the messages it has created, the rejected
\* status edits it swallowed and the exceptions it raised, when the call it
\* awaited resolves (ok) or rejects
NextCalls(h, ok, hs) ==
  (IF h.pc \in {"out_send", "resp_send_md", "resp_send_plain"} /\ ok
   THEN <<Call(h.ev, IF h.pc = "out_send" THEN "out_created" ELSE "resp_created")>>
   ELSE IF h.pc = "status_edit" /\ ~ok THEN <<Call(h.ev, "status_edit_failed")>>
   ELSE IF Raises(h, ok) THEN <<Call(h.ev, "raised")>>
   ELSE <<>>)
  \o (IF \E g \in {hs[j] : j \in DOMAIN hs} : g.ev = h.ev
      THEN <<Call(h.ev, (CHOOSE g \in {hs[j] : j \in DOMAIN hs} : g.ev = h.ev).pc)>>
      ELSE IF h.pc = "reply_md" /\ ~ok THEN <<Call(h.ev, "reply")>>
      ELSE <<>>)

PresentStep(i, ok) ==
  /\ HandlerResumes(i, ok)
  /\ calls' = calls \o NextCalls(handlers[i], ok, handlers')
  /\ UNCHANGED <<config, texts, shell, nEv, sender, ad, fn, agents, procs, upd, nTask, since>>

PresentResolves == \E i \in 1..Len(handlers) : PresentStep(i, TRUE)
PresentRejects == \E i \in 1..Len(handlers) : PresentStep(i, FALSE)

NextPresent ==
  \/ \E p \in 1..Len(procs) : Emit(p)
  \/ PresentResolves
  \/ PresentRejects

SpecPresent == InitPresent /\ [][NextPresent]_vars

(***************************************************************************)
(* Properties.                                                             *)
(***************************************************************************)
InFlight(hs) == {hs[i] : i \in DOMAIN hs}

\* an update handler for a text or photo message starts in this step
TakesMessage == upd.pc = "done" /\ upd'.kind = "msg"

\* process p closes in this step
Closes(p) == procs[p].st # "closed" /\ procs'[p].st = "closed"

\* the processes of agent a that have not closed
OpenOf(ps, a) == {p \in DOMAIN ps : ps[p].agent = a /\ ps[p].st # "closed"}

\* C1: between update handlers, and unless a close callback is still being
\* handled, the session is busy if and only if it owns an agent handle.
C1_BusyIffAgentOwned ==
  (upd.pc = "done" /\ ~\E h \in InFlight(handlers) : h.kind = "close")
    => (session.isProcessing <=> session.agent # 0)

C3_NewTaskOnlyWithoutAgent ==
  [][ /\ (upd.pc = "thinking" /\ agents'[upd.task].made) => session.agent = 0
      /\ (TakesMessage /\ session.agent # 0) => upd'.pc # "thinking"
    ]_vars

\* C4: whenever handleMessage calls sendMessage on the interactive agent,
\* the agent's process has been spawned and has neither exited nor been
\* stopped, so sendMessage does not fail with "Process not started".
C4_ForwardOnlyToLiveProcess ==
  [][ (agentKind = "claude" /\ TakesMessage /\ upd'.pc # "thinking") =>
        /\ agents[session.agent].proc # 0
        /\ Alive(agents[session.agent].proc)
        /\ upd'.note # "Process not started"
    ]_vars

\* C5: no slot ever holds a message of an earlier task; while the new task
\* waits for its status message the three slots are absent, and once its
\* agent is constructed the status slot holds a message of this task.
C5_SlotsOfCurrentTask ==
  /\ \A slot \in {"statusMsgId", "outputMsgId", "responseMsgId"} :
       session[slot] \in {NoMsg, Msg(nTask)}
  /\ upd.pc = "thinking" =>
       \A slot \in {"statusMsgId", "outputMsgId", "responseMsgId"} :
         session[slot] = NoMsg
  /\ (nTask > 0 /\ session.agent = nTask) => session.statusMsgId = Msg(nTask)

\* C6: the step in which a process's terminal (done) event is processed, and
\* the step in which a process closes, leave the session not busy.
C6_DoneOrExitClearsBusy ==
  [][ \A p \in DOMAIN procs :
        (\/ procs[p].phase = "running" /\ procs'[p].phase = "idle"
         \/ Closes(p))
        => ~session'.isProcessing
    ]_vars

C6_IdleAfterDone ==
  \E p \in DOMAIN procs :
    /\ procs[p].phase = "idle" /\ procs[p].agent = session.agent
    /\ ~session.isProcessing

\* C7: when a process closes and the close callback finds the session busy,
\* the session becomes not busy with no other field changed, the status
\* slot (if bound) is edited, and the error text is then sent exactly when
\* it is shorter than 500 characters; when the callback finds the session
\* not busy it changes nothing and reports nothing.
C7_CloseWhileBusy ==
  [][ /\ \A p \in DOMAIN procs :
           Closes(p) =>
             IF agentKind = "claude" /\ session.isProcessing
             THEN /\ session' = [session EXCEPT !.isProcessing = FALSE]
                  /\ IF session.statusMsgId # NoMsg
                     THEN /\ Len(handlers') = Len(handlers) + 1
                          /\ LET h == handlers'[Len(handlers')]
                             IN /\ h.kind = "close" /\ h.pc = "status_edit"
                                /\ h.task = procs[p].agent
                                /\ h.len \in {ExitMsgLen, CrashMsgLimit - 1, CrashMsgLimit}
                     ELSE \A h \in InFlight(handlers') \ InFlight(handlers) :
                            h.kind = "close" /\ h.pc = "reply"
             ELSE /\ session' = [session EXCEPT !.isProcessing = FALSE]
                  /\ \A h \in InFlight(handlers') \ InFlight(handlers) :
                       h.kind # "close"
      /\ \A h \in InFlight(handlers) :
           (h.kind = "close" /\ h.pc = "status_edit" /\ h.len < CrashMsgLimit) =>
             \/ h \in InFlight(handlers')
             \/ [h EXCEPT !.pc = "reply"] \in InFlight(handlers')
      /\ \A h \in InFlight(handlers') :
           (h.kind = "close" /\ h.pc = "reply") => h.len < CrashMsgLimit
    ]_vars

C7_CrashReported ==
  \E h \in InFlight(handlers) :
    /\ h.kind = "close" /\ h.pc = "reply" /\ h.len = CrashMsgLimit - 1
    /\ ~session.isProcessing
    /\ session.statusMsgId = Msg(h.task)

\* C8: when handleMessage has finished handling a failed start, an error
\* message was sent to the user and the session is not busy.
C8_StartFailureReturnsToIdle ==
  (upd.kind = "msg" /\ upd.pc = "return"
     /\ upd.note \in {"Error: sent", "Error: not sent"})
    => (upd.note = "Error: sent" /\ ~session.isProcessing)

\* C9: /new, from any session state, stops the owned agent and leaves the session not busy, without
\* agent handle and resume token and with cwd unchanged; the process of the
\* next task started after /new is spawned with neither resume flag.
C9_NewDiscardsAgentAndToken ==
  [][ /\ CmdNew =>
           /\ session'.agent = 0 /\ ~session'.isProcessing
           /\ session'.sessionId = None
           /\ session'.cwd = session.cwd
           /\ (session.agent # 0 /\ agents[session.agent].proc # 0) =>
                /\ procs'[agents[session.agent].proc].st = "killed"
                /\ agents'[session.agent].proc = 0
      /\ (since = "new" /\ upd.pc = "thinking" /\ Len(procs') > Len(procs)) =>
           procs'[Len(procs')].flag = None
    ]_vars

\* C10: /stop on a busy session stops the owned agent and leaves the session
\* not busy and without agent handle; /stop on a session that is not busy
\* only replies that no task is running: no session field changes and no
\* process is stopped.
C10_StopOnlyWhenBusy ==
  [][ (upd.pc = "done" /\ upd'.kind = "stop") =>
        IF session.isProcessing
        THEN /\ session'.agent = 0 /\ ~session'.isProcessing
             /\ upd'.note = "Stopped. Use /resume to continue."
             /\ (session.agent # 0 /\ agents[session.agent].proc # 0) =>
                  /\ procs'[agents[session.agent].proc].st = "killed"
                  /\ agents'[session.agent].proc = 0
        ELSE /\ upd'.note = "No task running."
             /\ session' = session /\ procs' = procs /\ agents' = agents
    ]_vars

C10_StoppedBusy ==
  /\ upd.kind = "stop" /\ upd.note = "Stopped. Use /resume to continue."
  /\ \E p \in DOMAIN procs : procs[p].st = "killed"
  /\ session.agent = 0 /\ ~session.isProcessing

\* C11: /resume, from any session state, stops the owned agent and leaves
\* the session not busy, without agent handle and with the resume token set
\* to the "continue" sentinel; the process of the next task started after
\* /resume (no /new, /stop or cd in between) is spawned with --continue.
C11_ResumeContinuesMostRecent ==
  [][ /\ CmdResume =>
           /\ session'.agent = 0 /\ ~session'.isProcessing
           /\ session'.sessionId = Continue
           /\ session'.cwd = session.cwd
           /\ (session.agent # 0 /\ agents[session.agent].proc # 0) =>
                /\ procs'[agents[session.agent].proc].st = "killed"
                /\ agents'[session.agent].proc = 0
      /\ (since = "resume" /\ upd.pc = "thinking" /\ Len(procs') > Len(procs)) =>
           procs'[Len(procs')].flag = "--continue"
    ]_vars

\* C12: /cd with a path, from any session state, stops the owned agent,
\* clears the resume token, stores the tilde-expanded, cwd-joined and
\* lexically normalized path as cwd, and leaves the session not busy and
\* without agent handle.
C12_CdStopsAndStoresNormalized ==
  [][ CmdCd(CdArgs) =>
        /\ session'.agent = 0 /\ session'.sessionId = None
        /\ \E arg \in CdArgs :
             session'.cwd = Normalize(CdTarget(arg, session.cwd), <<>>)
        /\ (session.agent # 0 /\ agents[session.agent].proc # 0) =>
             /\ procs'[agents[session.agent].proc].st = "killed"
             /\ agents'[session.agent].proc = 0
        /\ ~session'.isProcessing
    ]_vars

\* C13: after any sequence of /cd and !cd with arbitrary path arguments the
\* stored cwd is an absolute normalized path: it has no ".", "..", "~" or
\* empty segment.
C13_CwdNormalized ==
  \A i \in DOMAIN session.cwd : session.cwd[i] \notin {"", ".", "..", "~"}

\* C14: '!cd <path>' and '/cd <path>' are equivalent: from the same session
\* state and with the same path, every /cd step is a !cd step, so cwd, agent
\* handle, resume token, busy flag and the stopped process are the same.
C14_BangCdSameAsCd ==
  [][ \A arg \in CdArgs \cup PathArgs : CmdCd({arg}) => BangCd({arg}) ]_vars

\* C15: a '!command' that is not a cd never touches the agent: the command
\* is not forwarded and starts no task, and the step leaves the session
\* (agent handle, busy flag, resume token, cwd, the three slots), the
\* agents, the processes and the suspended handlers unchanged, whether the
\* session is busy or not.
C15_BangLeavesAgentAlone ==
  [][ (upd.pc = "done" /\ upd'.kind = "bang") =>
        /\ upd'.pc = "return" /\ upd'.note = "exec"
        /\ session' = session
        /\ agents' = agents /\ procs' = procs
        /\ handlers' = handlers /\ nTask' = nTask
    ]_vars

C15_BangWhileBusy ==
  /\ upd.kind = "bang"
  /\ session.isProcessing /\ session.agent # 0
  /\ agents[session.agent].proc # 0 /\ Alive(agents[session.agent].proc)
  /\ session.outputMsgId # NoMsg

\* the entries of a table, and the texts stored for a text
Entries(table) == {table[i] : i \in DOMAIN table}

\* a long response is inserted into the table in this step
Inserts == nLong' = nLong + 1 /\ ~fullMode

\* C16: the expandable-message table never holds more than 20 entries in a
\* state another handler can observe, and an insertion under a new key into
\* a table of 20 evicts exactly one entry, the oldest-inserted one (every
\* surviving entry was inserted later and keeps its place); an insertion
\* into a table of fewer entries evicts none.
C16_TableBoundedFifo ==
  /\ [](Len(longMessages) <= TableLimit)
  /\ [][ (Inserts /\ ~Has(longMessages, now')) =>
           LET new == [key |-> now', text |-> chat'.of] IN
           IF Len(longMessages) = TableLimit
           THEN /\ longMessages' = Tail(longMessages) \o <<new>>
                /\ Cardinality(Entries(longMessages) \ Entries(longMessages')) = 1
                /\ \A e \in Entries(longMessages) \cap Entries(longMessages') :
                     longMessages[1].key < e.key
           ELSE longMessages' = Append(longMessages, new)
       ]_vars

C16_EvictedTwice ==
  /\ cb = NoCb
  /\ nLong = MaxLong
  /\ Len(longMessages) = TableLimit
  /\ ~Has(longMessages, 1) /\ ~Has(longMessages, 2) /\ Has(longMessages, 3)

C18_Truncation ==
  /\ chat.op = "output" =>
       IF chat.of.len > OutputLimit
       THEN chat.body = Text(chat.of.id, OutputLimit) /\ chat.mark = "\n... (truncated)"
       ELSE chat.body = chat.of /\ chat.mark = ""
  /\ chat.op = "response" =>
       IF chat.of.len > ResponseLimit
       THEN /\ chat.body = Text(chat.of.id, ResponseLimit) /\ chat.mark = "\n\n..."
            /\ chat.control # 0
            /\ Cardinality({i \in DOMAIN longMessages :
                              longMessages[i].text = chat.of}) = 1
            /\ \A e \in Entries(longMessages) :
                 e.text = chat.of => e.key = chat.control
       ELSE /\ chat.body = chat.of /\ chat.mark = "" /\ chat.control = 0
            /\ \A e \in Entries(longMessages) : e.text # chat.of

\* C18, amended: the statement about tool output holds in both stream
\* modes; the statement about responses holds in compact mode, and in full
\* mode a response of any length is shown whole, with no control and no
\* table entry.
C18_TruncationByMode ==
  /\ chat.op = "output" =>
       IF chat.of.len > OutputLimit
       THEN chat.body = Text(chat.of.id, OutputLimit) /\ chat.mark = "\n... (truncated)"
       ELSE chat.body = chat.of /\ chat.mark = ""
  /\ chat.op = "response" =>
       IF ~fullMode /\ chat.of.len > ResponseLimit
       THEN /\ chat.body = Text(chat.of.id, ResponseLimit) /\ chat.mark = "\n\n..."
            /\ chat.control # 0
            /\ Cardinality({i \in DOMAIN longMessages :
                              longMessages[i].text = chat.of}) = 1
            /\ \A e \in Entries(longMessages) :
                 e.text = chat.of => e.key = chat.control
       ELSE /\ chat.body = chat.of /\ chat.mark = "" /\ chat.control = 0
            /\ \A e \in Entries(longMessages) : e.text # chat.of

C18_LongResponseCut ==
  /\ ~fullMode
  /\ chat.op = "response" /\ chat.of.len = ResponseLimit + 1
  /\ chat.body.len = ResponseLimit /\ chat.control = now
  /\ Len(longMessages) = TableLimit

\* the calls issued (not the records of created messages)
IssuedAt(i) == calls[i].op \notin {"out_created", "resp_created", "status_edit_failed", "raised"}

\* C19: the chat calls of one process's events are issued in the order of
\* the events: no call caused by a later event is issued before a call
\* caused by an earlier one.
C19_CallsInEmissionOrder ==
  \A i, j \in DOMAIN calls :
    (i < j /\ IssuedAt(i) /\ IssuedAt(j)) => calls[i].ev <= calls[j].ev

\* an edit of the output message was rejected: the event that issued it
\* went on to send
OutputEditFailed ==
  \E i, j \in DOMAIN calls :
    /\ calls[i].op = "out_edit" /\ calls[j].op = "out_send"
    /\ calls[i].ev = calls[j].ev

\* C20: in compact mode, as long as no edit of the output message fails, a
\* task creates at most one output message: only the first tool_output of
\* the task sends, every later one edits.
C20_OneOutputMessage ==
  (~fullMode /\ ~OutputEditFailed) =>
    /\ Cardinality({i \in DOMAIN calls : calls[i].op = "out_created"}) <= 1
    /\ \A i, j \in DOMAIN calls :
         (i < j /\ calls[i].op = "out_created") => calls[j].op # "out_send"

\* an edit of the response message was rejected: the event that issued it
\* went on to the plain edit
ResponseEditFailed == \E i \in DOMAIN calls : calls[i].op = "resp_edit_plain"

\* C21: in compact mode, as long as no edit of the response message fails,
\* a task creates at most one response message: once a response message
\* exists no text event sends another, every later one edits.
C21_OneResponseMessage ==
  (~fullMode /\ ~ResponseEditFailed) =>
    /\ Cardinality({i \in DOMAIN calls : calls[i].op = "resp_created"}) <= 1
    /\ \A i, j \in DOMAIN calls :
         (i < j /\ calls[i].op = "resp_created") =>
           calls[j].op \notin {"resp_send_md", "resp_send_plain"}

\* C22: the status slot, bound when the task started, keeps its message for
\* the rest of the task, and a rejected status edit is swallowed: the step
\* changes no session field, the edit is not issued again, no message is
\* created, and the handler goes on exactly as after an edit that resolved.
C22_StatusBoundOnceEditSwallowed ==
  [][ /\ session'.statusMsgId = session.statusMsgId
      /\ session.statusMsgId = Msg(1)
      /\ \A i \in DOMAIN handlers :
           (handlers[i].pc = "status_edit" /\ PresentStep(i, FALSE)) =>
             /\ session' = session
             /\ HandlerResumes(i, TRUE)
             /\ \A j \in DOMAIN handlers' :
                  handlers'[j].ev = handlers[i].ev => handlers'[j].pc # "status_edit"
             /\ \A k \in (DOMAIN calls') \ (DOMAIN calls) :
                  /\ calls'[k].ev = handlers[i].ev
                  /\ calls'[k].op \notin {"status_edit", "out_created", "resp_created"}
    ]_vars

C22_FailedEditThenResponse ==
  \E i, j \in DOMAIN calls :
    /\ i < j
    /\ calls[i].op = "status_edit_failed" /\ calls[j].op = "resp_created"
    /\ calls[i].ev = calls[j].ev
    /\ session.statusMsgId = Msg(1) /\ session.isProcessing

\* C23: failures of the display layer never propagate: whatever chat calls
\* are rejected, no presenter call raises, and the busy flag and the agent
\* handle stay as they were.
C23_PresenterNeverRaises ==
  \A i \in DOMAIN calls : calls[i].op # "raised"

\* C24: a process that was killed before it emitted a terminal event
\* reaches the caller as a normalized event: when it closes, the adapter
\* passes a done or error event to its event callback.
C24_FailureDeliveredAsEvent ==
  [][ \A p \in DOMAIN procs :
        (Closes(p) /\ procs[p].st = "killed" /\ procs[p].phase # "idle") =>
          \E i \in DOMAIN CloseEvents(p) : CloseEvents(p)[i].type \in {"done", "error"}
    ]_vars

\* C25: only the configured user can interact: the arrival of an update
\* changes nothing but the record of its sender, and while the latest
\* update is from anybody else (or has no sender) no handler starts, so no
\* command, message or shell handler touches the session, an agent, a
\* process or the chat; handlers and processes already under way go on.
C25_OnlyAllowedUserActs ==
  [][ /\ sender' # sender =>
           UNCHANGED <<vars_session, texts, shell, calls, nEv, ad, fn>>
      /\ (sender # AllowedUserId /\ sender' = sender) => ~StartsHandler
    ]_vars

C25_StrangerWhileBusy ==
  /\ sender = AllowedUserId + 1
  /\ session.isProcessing /\ InFlight(handlers) = {} /\ upd.pc = "done"
  /\ session.agent # 0 /\ agents[session.agent].proc # 0

\* the standard-error chunks process k of the agent has written
OwnStderr(k) == [i \in 1..ad.kids[k].wrote |-> k]

\* C26: the close callback is invoked exactly once for each process the
\* agent spawned, when that process has closed and never before, and it
\* is given the standard-error text that process has written.
C26_CloseCallbackOncePerProcess ==
  \A k \in DOMAIN ad.kids :
    /\ ad.kids[k].closes = IF ad.kids[k].st = "closed" THEN 1 ELSE 0
    /\ ad.kids[k].st = "closed" => ad.kids[k].got = OwnStderr(k)

\* C27: stop() is safe in every state of the agent and idempotent: after
\* it isRunning() is false, a second stop() changes nothing, and no process
\* is killed twice; isRunning() is true when a process that was spawned has
\* neither exited nor been stopped, and only when one has neither closed
\* nor been stopped.
C27_StopIdempotent ==
  /\ [](\A k \in DOMAIN ad.kids : ad.kids[k].kills <= 1)
  /\ [](IsRunning(ad) =>
          \E k \in DOMAIN ad.kids : ad.kids[k].st # "closed" /\ ad.kids[k].kills = 0)
  /\ []((\E k \in DOMAIN ad.kids : ad.kids[k].st = "running" /\ ad.kids[k].kills = 0)
          => IsRunning(ad))
  /\ [][AgStop => (~IsRunning(ad') /\ Stopped(ad') = ad')]_vars

\* the segments of an absolute path: the pieces after its leading slash
Segments(path) == Split(Tail(path), <<>>, <<>>)

\* an absolute path without ".", ".." and empty segments ("/" is one)
NormalizedPath(path) ==
  /\ StartsWith(path, "/")
  /\ path = <<"/">> \/ \A i \in DOMAIN Segments(path) :
                         Segments(path)[i] \notin {<<>>, <<".">>, <<".", ".">>}

\* the path with its last segment dropped; the root is its own parent
Parent(path) ==
  LET segs == Segments(path)
  IN IF path = <<"/">> THEN path
     ELSE <<"/">> \o Join(SubSeq(segs, 1, Len(segs) - 1))

\* C28: resolvePath gives a normalized absolute path: it starts with "/"
\* and has no ".", ".." or empty segment; ".." takes the parent and stays
\* at the root there; a normalized absolute input is returned as it is; and
\* resolving the result again gives the result.
C28_ResolvePathNormalizes ==
  (fn.name = "resolvePath" /\ fn.done) =>
    LET inputPath == fn.args[1]
        cwd == fn.args[2]
        home == fn.args[3]
    IN /\ NormalizedPath(fn.out)
       /\ NormalizedPath(inputPath) => fn.out = inputPath
       /\ resolvePath(fn.out, cwd, home) = fn.out
       /\ inputPath # <<>> =>
            resolvePath(inputPath \o <<"/", ".", ".">>, cwd, home) = Parent(fn.out)
       /\ StartsWith(inputPath, "~") =>
            fn.out = resolvePath(home \o Tail(inputPath), cwd, home)
       /\ ~StartsWith(inputPath, "~") /\ ~StartsWith(inputPath, "/") =>
            fn.out = resolvePath(cwd \o <<"/">> \o inputPath, cwd, home)

C28_ParentOfRoot ==
  /\ fn.name = "resolvePath" /\ fn.done
  /\ fn.args[1] = <<"/", ".", ".", "/", "a">>
  /\ fn.out = <<"/", "a">>

\* the text holds a complete <thinking>...</thinking> span
HasSpan(s) ==
  \E i \in DOMAIN s : OpensAt(SubSeq(s, i, Len(s))) /\ ClosesAt(SubSeq(s, i, Len(s))) # {}

\* C29: for every text, what stripThinkingTags returns is trimmed and holds
\* no complete <thinking>...</thinking> span, so that stripping it again
\* gives the same text; a text without a span is returned trimmed.
C29_StripLeavesNoSpan ==
  (fn.name = "stripThinkingTags" /\ fn.done) =>
    /\ ~HasSpan(fn.out)
    /\ stripThinkingTags(fn.out) = fn.out
    /\ Trimmed(fn.out) = fn.out
    /\ ~HasSpan(fn.args[1]) => fn.out = Trimmed(fn.args[1])

\* the verb a file or search tool is shown with
Verb(name) ==
  CASE name = "Read" -> "Reading "
    [] name = "Edit" -> "Editing "
    [] name = "Write" -> "Writing "
    [] name = "Glob" -> "Searching "
    [] name = "Grep" -> "Grepping "

\* C30: formatToolUse shows a Bash command in backticks, whole when it has
\* 50 characters or fewer and else its first 50 characters followed by
\* "..."; Read, Edit, Write, Glob and Grep as their verb and the path or
\* pattern in backticks; Task as "Running task..."; any other tool as its
\* bare name.
C30_FormatToolUse ==
  (fn.name = "formatToolUse" /\ fn.done) =>
    LET name == fn.args[1]
        text == fn.args[2]
    IN /\ name = "Bash" /\ text.len <= 50 => fn.out = Shown("", TRUE, text, "")
       /\ name = "Bash" /\ text.len > 50 =>
            fn.out = Shown("", TRUE, [id |-> text.id, len |-> 50], "...")
       /\ name \in {"Read", "Edit", "Write", "Glob", "Grep"} =>
            fn.out = Shown(Verb(name), TRUE, text, "")
       /\ name = "Task" => fn.out = Shown("Running task...", FALSE, NoText, "")
       /\ name \notin {"Bash", "Read", "Edit", "Write", "Glob", "Grep", "Task"} =>
            fn.out = Shown(name, FALSE, NoText, "")
       /\ fn.out = formatToolUse(name, text)

C30_LongCommandCut ==
  /\ fn.name = "formatToolUse" /\ fn.done
  /\ fn.args[1] = "Bash" /\ fn.args[2].len = 51
  /\ fn.out.body.len = 50 /\ fn.out.post = "..."

\* C31: in the desktop shell the running indicator is on exactly when the
\* bot process started last is alive and held in botProcess, and at most
\* one bot process the shell started is alive.
C31_IndicatorTracksBot ==
  /\ shell.isRunning <=>
       /\ shell.botProcess # 0
       /\ shell.botProcess = Len(shell.bots)
       /\ shell.bots[shell.botProcess] = "alive"
  /\ Cardinality({k \in DOMAIN shell.bots : shell.bots[k] = "alive"}) <= 1

\* the three slot ids of a session
Slots(s) == <<s.statusMsgId, s.outputMsgId, s.responseMsgId>>

\* C32: processing a done event leaves the three slot ids as they are, and
\* so do /new, /stop, /resume, /cd and !cd; a bound slot is cleared by no
\* step but the reset that starts the next task.
C32_SlotsKeptUntilNextTask ==
  [][ /\ (CmdNew \/ CmdStop \/ CmdResume \/ CmdCd(CdArgs) \/ BangCd(CdArgs)) =>
           Slots(session') = Slots(session)
      /\ (\E p \in DOMAIN procs : ClaudeResult(p) \/ OpenCodeClose(p)) =>
           Slots(session') = Slots(session)
      /\ \A i \in DOMAIN handlers :
           (handlers[i].kind = "done" /\ (HandlerStep(i, TRUE) \/ HandlerStep(i, FALSE))) =>
             Slots(session') = Slots(session)
      /\ (\E n \in 1..3 : Slots(session)[n] # NoMsg /\ Slots(session')[n] = NoMsg) =>
           MsgStart
    ]_vars

C32_SlotsKeptAfterNew ==
  /\ since = "new" /\ ~session.isProcessing /\ session.agent = 0
  /\ session.statusMsgId # NoMsg /\ session.responseMsgId # NoMsg
  /\ \E p \in DOMAIN procs : procs[p].phase = "idle"

\* a command that discards the agent and rewrites the resume token
RewritesToken == CmdNew \/ CmdStop \/ CmdResume \/ CmdCd(CdArgs) \/ BangCd(CdArgs)

\* C33: processing an init event with session id s makes s the resume
\* token of the session; the token then stays until the next init event or
\* one of /new, /stop, /resume, /cd and !cd; and a task's interactive
\* process is spawned with --resume s when the token is s (never with
\* --continue), and with neither flag when there is no token.
C33_InitSetsResumeToken ==
  [][ /\ \A p \in DOMAIN procs :
           ClaudeInit(p) => session'.sessionId \in SessionIds
      /\ session'.sessionId # session.sessionId =>
           \/ RewritesToken
           \/ \E p \in DOMAIN procs : ClaudeInit(p) \/ OpenCodeEvent(p)
      /\ (agentKind = "claude" /\ MsgThinkingSent /\ Len(procs') > Len(procs)) =>
           LET flag == procs'[Len(procs')].flag
           IN /\ session.sessionId \in SessionIds => flag = session.sessionId
              /\ session.sessionId = None => flag = None
    ]_vars

C33_ResumedAfterInit ==
  /\ agentKind = "claude"
  /\ \E p, q \in DOMAIN procs :
       /\ p < q /\ procs[p].phase = "idle" /\ procs[p].st = "alive"
       /\ procs[q].flag = "s1" /\ procs[q].st = "alive"
  /\ since = "none"

\* the bytes of the stream that have arrived so far
RECURSIVE Flat(_)
Flat(chunks) == IF chunks = <<>> THEN <<>> ELSE Head(chunks) \o Flat(Tail(chunks))

Arrived == SubSeq(fn.args[1], 1, Len(fn.args[1]) - Len(Flat(fn.args[2])))

\* C34: however the output is split into read chunks, after each chunk the
\* events delivered are those of the complete non-blank lines that parse,
\* among the bytes arrived so far, in order and once each, and the buffer
\* holds the unfinished last line.
C34_FramingIndependentOfChunking ==
  fn.name = "stdout" =>
    LET whole == SplitLines(toString(Arrived), <<>>, <<>>)
    IN /\ fn.out.events = Delivered(SubSeq(whole, 1, Len(whole) - 1), <<>>)
       /\ fn.out.buffer = whole[Len(whole)]

\* how many entries of a type a process's log holds
Count(log, type) == Cardinality({i \in DOMAIN log : log[i].type = type})

\* how many init events the processes of the agent have delivered together
RECURSIVE InitsOf(_)
InitsOf(kids) ==
  IF kids = <<>> THEN 0 ELSE Count(Head(kids).log, "init") + InitsOf(Tail(kids))

\* C35: on the spawn-per-turn agent, whatever the resume token, once a
\* backend event has been read exactly one init event has been delivered,
\* ahead of the other events of its process; and a process that has closed
\* has delivered exactly one done event, after its other events and just
\* before the close callback, with isError true iff the exit code is not 0;
\* a process that has not closed has delivered none.
C35_OneInitFirstOneDoneLast ==
  agentKind = "opencode" =>
    /\ (\E k \in DOMAIN ad.kids : ad.kids[k].out > 0) => InitsOf(ad.kids) = 1
    /\ \A k \in DOMAIN ad.kids :
         LET log == ad.kids[k].log
         IN /\ \A i \in DOMAIN log : log[i].type = "init" => i = 1
            /\ Count(log, "done") = IF ad.kids[k].st = "closed" THEN 1 ELSE 0
            /\ ad.kids[k].st = "closed" =>
                 /\ log[Len(log) - 1] = Told("done", ad.kids[k].code # "0")
                 /\ log[Len(log)].type = "close"

\* the processes of the agent that have neither ended nor been stopped
LiveKids == {k \in DOMAIN ad.kids : ad.kids[k].st = "running" /\ ad.kids[k].kills = 0}

\* C36: on the spawn-per-turn agent, under every interleaving of
\* sendMessage, stop() and the end of processes, the agent never has two
\* live processes at once, and a process spawned for a later turn, once a
\* session id has been captured, is invoked with that session id.
C36_TurnsNeverOverlap ==
  /\ [](agentKind = "opencode" => Cardinality(LiveKids) <= 1)
  /\ [][(agentKind = "opencode" /\ ad.started /\ Len(ad'.kids) > Len(ad.kids)
          /\ ad.sid # None)
        => ad'.kids[Len(ad'.kids)].flag = ad.sid]_vars

\* C37: every insertion into the table of long messages uses a key that
\* is not in the table, so the text stored under a key stays the text of
\* the message whose control carries that key, also when two long
\* responses fall into the same millisecond.
C37_FreshKeyPerLongResponse ==
  [][(~fullMode /\ nLong' = nLong + 1) =>
       /\ ~Has(longMessages, chat'.control)
       /\ \A i \in DOMAIN longMessages, j \in DOMAIN longMessages' :
            longMessages'[j].key = longMessages[i].key
              => longMessages'[j].text = longMessages[i].text
    ]_vars

\* the processes spawned for the session that have neither been killed nor
\* closed
AliveProcs == {p \in DOMAIN procs : procs[p].st = "alive"}

\* C38: at most one process spawned for the session is alive at any time:
\* when a task spawns its process, every process of an earlier task has
\* been killed or has closed.
C38_OneLiveProcessPerSession == Cardinality(AliveProcs) <= 1

\* process p hands an event or its close to the callbacks of its agent
Delivers(p) ==
  \/ ClaudeInit(p) \/ ClaudeEvent(p) \/ ClaudeResult(p) \/ ClaudeClose(p)
  \/ OpenCodeEvent(p) \/ OpenCodeClose(p)

\* C39: an event or a close of a process whose agent is not the session's
\* current agent leaves the session as it is: busy flag, resume token,
\* slots and the status last shown.
C39_StaleAgentLeavesSession ==
  [][\A p \in DOMAIN procs :
       (Delivers(p) /\ procs[p].agent # session.agent) => session' = session
    ]_vars

\* C40: when a process that the user's command has killed closes, the
\* close callback finds the session not busy: the busy flag is not
\* written, and no crash status and no crash message is started.
C40_NoCrashNoticeForRequestedExit ==
  [][\A p \in DOMAIN procs :
       ((ClaudeClose(p) \/ OpenCodeClose(p)) /\ procs[p].st = "killed") =>
         /\ \A i \in DOMAIN handlers' : i > Len(handlers) => handlers'[i].kind # "close"
         /\ agentKind = "claude" => session' = session
    ]_vars

=============================================================================
